---- MODULE Spec2Model ----
(***************************************************************************)
(* Lip-sync analyser, character asset store and timeline assembly of the   *)
(* hebodan video pipeline (src/utils/audio_analyzer.py,                    *)
(* src/utils/character_assets.py, src/generators/video_composer.py,        *)
(* src/generators/audio_generator.py).                                     *)
(*                                                                         *)
(* Numbers.  Times are integer milliseconds.  Sample arithmetic is exact   *)
(* rational arithmetic on integers: a comparison rms > threshold is        *)
(* written as the equivalent comparison of squares, cross-multiplied.      *)
(* Brightness and scale factors are percentages (0.5 -> 50, 1.1 -> 110).   *)
(***************************************************************************)
EXTENDS Integers, Sequences, FiniteSets, TLC

VARIABLES
  wav,              \* analyser input: header fields and PCM frames of the WAV file
  fps,              \* analyser input: video frame rate
  threshold,        \* analyser input: [num, den], the fraction num/den
  min_open_frames,  \* analyser input
  mouth,            \* analyser outcome: "idle", a returned array or a raised error
  disk,             \* asset store input: what exists under assets/images for one speaker
  frames,           \* asset store: the CharacterFrames returned by load_character_assets
  sprites,          \* renderer: the emotion requested last and the sprites (or error) found
  ending_cfg,       \* configuration: ENDING_FADE_IN, ENDING_FADE_OUT, ENDING_VOICE_GAP (ms)
  ending_files,     \* the ending voice files on disk: path -> duration (ms)
  ending,           \* result of _create_ending_clip: "idle", None or the clip
  dialogue,         \* the script's DialogueLines
  synth,            \* the clip the speech server returns for each line
  title,            \* episode title ("" skips the opening)
  opening_logo,     \* whether OPENING_LOGO_PATH exists
  images_dir,       \* assets/images: speaker -> state of its sprite directory
  pc,               \* position of the pipeline
  audio_paths,      \* list returned by AudioGenerator.generate
  audio_files,      \* WAV files written by the generator: path -> clip
  assets,           \* speaker -> CharacterFrames loaded by compose_landscape
  clips,            \* the list `clips` of compose_landscape
  error,            \* exception that aborted the pipeline, "none" otherwise
  final,            \* the concatenated clip, once built
  output,           \* the video file at output_path
  probe,            \* last evaluation of an animated clip's frame function
  cli_args,         \* entry point and command line of a run of main() or cmd_run()
  font_exists,      \* whether FONT_PATH exists
  script_exists,    \* whether the file given with --script exists
  main_pc,          \* position of main() / cmd_run()
  steps,            \* the steps of the run executed so far, in order
  exit_code,        \* process exit status, -1 while running
  opening_probe,    \* last frame of the opening evaluated: time and layer values
  ending_probe,     \* last frame of the ending evaluated: time and layer values
  portrait,         \* portrait ending: frame size and the two sprites' sizes
  position_probe,   \* portrait ending: last evaluation of the sprites' position functions
  sprite_dirs,      \* sprite rendering: speaker -> state of its sprite directory
  loaded_frames,    \* sprite rendering: speaker -> CharacterFrames, loaded once per render
  pixels,           \* sprite rendering: content of every loaded image array
  drawn,            \* sprite rendering: the character images of the scenes built so far
  caller,           \* retried service call: "script" or "background"
  retry,            \* retried service call: loop counters and outcome
  history,          \* retried service call: requests sent and sleeps taken, in order
  text_in,          \* text rendering: the text, max_width and stroke_width given to render_text
  wrapped,          \* text rendering: the list `lines` render_text draws
  shorts_in,        \* portrait video: dialogue and audio_paths given to compose_portrait
  shorts_out,       \* portrait video: dialogue and audio_paths the scenes are built from
  output_dir,       \* publishing: the files of one output directory
  tweets            \* publishing: the texts create_tweet was called with, in order

analyzerVars == << wav, fps, threshold, min_open_frames, mouth >>

assetVars == << disk, frames, sprites >>

endingVars == << ending_cfg, ending_files, ending >>

inputVars == << dialogue, synth, title, opening_logo, images_dir >>

composeVars == << pc, audio_paths, audio_files, assets, clips, error, final, output, probe >>

startupVars == << cli_args, font_exists, script_exists, main_pc, steps, exit_code >>

bumperVars == << opening_probe, ending_probe >>

bounceVars == << portrait, position_probe >>

renderVars == << sprite_dirs, loaded_frames, pixels, drawn >>

retryVars == << caller, retry, history >>

textVars == << text_in, wrapped >>

shortsVars == << shorts_in, shorts_out >>

publishVars == << output_dir, tweets >>

sideVars == << bounceVars, renderVars, retryVars, textVars, shortsVars, publishVars >>

vars == << wav, fps, threshold, min_open_frames, mouth, disk, frames, sprites,
           ending_cfg, ending_files, ending,
           dialogue, synth, title, opening_logo, images_dir,
           pc, audio_paths, audio_files, assets, clips, error, final, output, probe,
           cli_args, font_exists, script_exists, main_pc, steps, exit_code,
           opening_probe, ending_probe, portrait, position_probe,
           sprite_dirs, loaded_frames, pixels, drawn, caller, retry, history,
           text_in, wrapped, shorts_in, shorts_out, output_dir, tweets >>

(***************************************************************************)
(* Bounds and input alphabets of the analyser.                             *)
(***************************************************************************)
MaxSamples == 4

Amplitudes == {-2, 0, 1}
Channels == {1, 2}
SampleWidths == {1, 2, 3, 4}
SampleRates == {2, 3}
FrameRates == {1, 2, 3}
Thresholds == {[num |-> 3, den |-> 20], [num |-> 1, den |-> 1]}
MinOpenChoices == {1, 2, 3}

(***************************************************************************)
(* Generic helpers.                                                        *)
(***************************************************************************)
Min(a, b) == IF a < b THEN a ELSE b

Max(a, b) == IF a > b THEN a ELSE b

Abs(a) == IF a < 0 THEN 0 - a ELSE a

RECURSIVE Flatten(_)
Flatten(ss) == IF ss = << >> THEN << >> ELSE Head(ss) \o Flatten(Tail(ss))

RECURSIVE SumSeq(_)
SumSeq(s) == IF s = << >> THEN 0 ELSE Head(s) + SumSeq(Tail(s))

RECURSIVE MaxAbs(_)
MaxAbs(s) == IF s = << >> THEN 0 ELSE Max(Abs(Head(s)), MaxAbs(Tail(s)))

Raise(e) == [kind |-> "error", error |-> e, states |-> << >>]

Return(b) == [kind |-> "array", error |-> "none", states |-> b]

Idle == [kind |-> "idle", error |-> "none", states |-> << >>]

(***************************************************************************)
(* WAV file contents as the wave module hands them over: little-endian     *)
(* two's-complement samples of sample_width bytes (unsigned, offset 128,   *)
(* for one byte), interleaved by channel.                                  *)
(***************************************************************************)
ByteOf(v, k) == IF k = 0 THEN v % 256 ELSE IF v < 0 THEN 255 ELSE 0

EncodeSample(v, w) ==
  IF w = 1 THEN << v + 128 >> ELSE [k \in 1..w |-> ByteOf(v, k - 1)]

readframes(wf) ==
  LET interleaved == Flatten(wf.pcm)
  IN  Flatten([k \in 1..Len(interleaved) |->
                 EncodeSample(interleaved[k], wf.sample_width)])

(***************************************************************************)
(* np.frombuffer(raw_data, dtype).astype(float32), by dtype.               *)
(***************************************************************************)
Int16At(raw, k) ==
  raw[2 * k - 1] + 256 * raw[2 * k] - (IF raw[2 * k] >= 128 THEN 65536 ELSE 0)

Int32At(raw, k) ==
  raw[4 * k - 3] + 256 * raw[4 * k - 2] + 65536 * raw[4 * k - 1]
    + 16777216 * (raw[4 * k] - (IF raw[4 * k] >= 128 THEN 256 ELSE 0))

ItemSize(sample_width) ==
  IF sample_width = 2 THEN 2
  ELSE IF sample_width = 4 THEN 4
  ELSE IF sample_width = 1 THEN 1
  ELSE 2

DecodeSamples(raw, sample_width) ==
  IF sample_width = 2 THEN [k \in 1..(Len(raw) \div 2) |-> Int16At(raw, k)]
  ELSE IF sample_width = 4 THEN [k \in 1..(Len(raw) \div 4) |-> Int32At(raw, k)]
  ELSE IF sample_width = 1 THEN [k \in 1..Len(raw) |-> raw[k] - 128]
  ELSE [k \in 1..(Len(raw) \div 2) |-> Int16At(raw, k)]

(***************************************************************************)
(* samples.reshape(-1, n_channels).mean(axis=1).  The model keeps the      *)
(* per-frame channel SUM, i.e. every mono sample scaled by n_channels;     *)
(* the peak normalisation that follows cancels the common factor, and an   *)
(* all-zero clip is all-zero under either scale.                           *)
(***************************************************************************)
Downmix(samples, n_channels) ==
  IF n_channels > 1
    THEN [k \in 1..(Len(samples) \div n_channels) |->
            SumSeq(SubSeq(samples, (k - 1) * n_channels + 1, k * n_channels))]
    ELSE samples

(***************************************************************************)
(* Frame binning and the RMS threshold test.                               *)
(***************************************************************************)
CeilDiv(a, b) == (a + b - 1) \div b

\* variant: the frame count truncated instead of rounded up
TotalVideoFramesFloor(n_frames, sample_rate, rate) == (n_frames * rate) \div sample_rate

TotalVideoFrames(n_frames, sample_rate, rate) == CeilDiv(n_frames * rate, sample_rate)

\* variant: the boundary rounded to the nearest sample instead of truncated
BinStartRound(i, sample_rate, rate) == (2 * i * sample_rate + rate) \div (2 * rate)

\* bin index i counts from 0 as in the source
BinStart(i, sample_rate, rate) == (i * sample_rate) \div rate

BinEnd(i, sample_rate, rate, n_samples) ==
  Min(((i + 1) * sample_rate) \div rate, n_samples)

SumSquares(samples, start, end) ==
  SumSeq([k \in 1..(end - start) |-> samples[start + k] * samples[start + k]])

\* variant: the comparison is not strict (rms_per_frame >= threshold)
RmsExceedsOrEqual(samples, i, sample_rate, rate, thr) ==
  LET start == BinStart(i, sample_rate, rate)
      end == BinEnd(i, sample_rate, rate, Len(samples))
      max_amp == MaxAbs(samples)
      scale == IF max_amp > 0 THEN max_amp ELSE 1
  IN  IF start < end
        THEN SumSquares(samples, start, end) * thr.den * thr.den
               >= thr.num * thr.num * scale * scale * (end - start)
        ELSE 0 >= thr.num

\* rms_per_frame[i] > threshold, with samples normalised by max_amp when max_amp > 0
RmsExceeds(samples, i, sample_rate, rate, thr) ==
  LET start == BinStart(i, sample_rate, rate)
      end == BinEnd(i, sample_rate, rate, Len(samples))
      max_amp == MaxAbs(samples)
      scale == IF max_amp > 0 THEN max_amp ELSE 1
  IN  IF start < end
        THEN SumSquares(samples, start, end) * thr.den * thr.den
               > thr.num * thr.num * scale * scale * (end - start)
        ELSE 0 > thr.num

RmsOpen(samples, total, sample_rate, rate, thr) ==
  [j \in 1..total |-> RmsExceeds(samples, j - 1, sample_rate, rate, thr)]

(***************************************************************************)
(* Chatter suppression: the while loop of lines 75-82, positions 1-based.  *)
(***************************************************************************)
\* variant: the forced block one frame short (end = i + min_open_frames - 1)
RECURSIVE HoldOpenShort(_, _, _)
HoldOpenShort(result, i, m) ==
  IF i > Len(result) THEN result
  ELSE IF result[i]
    THEN LET end == Min(i + m - 1, Len(result) + 1)
         IN  HoldOpenShort([k \in 1..Len(result) |->
                              IF k >= i /\ k < end THEN TRUE ELSE result[k]],
                           Max(end, i + 1), m)
    ELSE HoldOpenShort(result, i + 1, m)

\* variant: the forced block one frame too long (end = i + min_open_frames + 1)
RECURSIVE HoldOpenLong(_, _, _)
HoldOpenLong(result, i, m) ==
  IF i > Len(result) THEN result
  ELSE IF result[i]
    THEN LET end == Min(i + m + 1, Len(result) + 1)
         IN  HoldOpenLong([k \in 1..Len(result) |->
                             IF k >= i /\ k < end THEN TRUE ELSE result[k]], end, m)
    ELSE HoldOpenLong(result, i + 1, m)

RECURSIVE HoldOpen(_, _, _)
HoldOpen(result, i, m) ==
  IF i > Len(result) THEN result
  ELSE IF result[i]
    THEN LET end == Min(i + m, Len(result) + 1)
         IN  HoldOpen([k \in 1..Len(result) |->
                         IF k >= i /\ k < end THEN TRUE ELSE result[k]], end, m)
    ELSE HoldOpen(result, i + 1, m)

Hysteresis(mouth_open, m) ==
  IF m > 1 THEN HoldOpen(mouth_open, 1, m) ELSE mouth_open

analyze_mouth_states(wf, rate, thr, m) ==
  LET raw == readframes(wf)
  IN  IF Len(raw) % ItemSize(wf.sample_width) # 0
        THEN Raise("ValueError")      \* frombuffer: buffer size not a multiple of element size
      ELSE LET decoded == DecodeSamples(raw, wf.sample_width)
           IN  IF wf.n_channels > 1 /\ Len(decoded) % wf.n_channels # 0
                 THEN Raise("ValueError")    \* reshape(-1, n_channels)
               ELSE LET samples == Downmix(decoded, wf.n_channels)
                    IN  IF Len(samples) = 0
                          THEN Raise("ValueError")    \* max() of a zero-size array
                        ELSE Return(Hysteresis(
                               RmsOpen(samples,
                                       TotalVideoFrames(wf.n_frames, wf.sample_rate, rate),
                                       wf.sample_rate, rate, thr),
                               m))

(***************************************************************************)
(* Character asset store (src/utils/character_assets.py) and the sprite    *)
(* lookups of the renderer.  A bitmap is identified by the file it was     *)
(* read from: the structured sprite of an emotion and mouth state, or the  *)
(* single legacy image.  A dict is a function on the set of its keys.      *)
(***************************************************************************)
VALID_EMOTIONS == {"normal", "happy", "angry", "sad", "surprised"}

Sprite(e, m) == [file |-> "sprite", emotion |-> e, mouth |-> m]

LegacyImage == [file |-> "legacy", emotion |-> "none", mouth |-> "none"]

NoImage == [file |-> "none", emotion |-> "none", mouth |-> "none"]

KeyError == [file |-> "KeyError", emotion |-> "none", mouth |-> "none"]

SpriteFiles == VALID_EMOTIONS \X {"closed", "open"}

NoFrames == [kind |-> "none", error |-> "none",
             mouth_closed |-> << >>, mouth_open |-> << >>]

\* the loop of lines 59-73: whichever of the two files of an emotion exist are loaded
LoadStructured(files) ==
  [kind |-> "frames", error |-> "none",
   mouth_closed |-> [e \in {x \in VALID_EMOTIONS : << x, "closed" >> \in files} |->
                       Sprite(e, "closed")],
   mouth_open |-> [e \in {x \in VALID_EMOTIONS : << x, "open" >> \in files} |->
                     Sprite(e, "open")]]

\* lines 96-111: the legacy image fills every emotion that has no entry yet
load_legacy_fallback(d, fr) ==
  IF ~d.legacy
    THEN [kind |-> "error", error |-> "FileNotFoundError",
          mouth_closed |-> << >>, mouth_open |-> << >>]
    ELSE [kind |-> "frames", error |-> "none",
          mouth_closed |-> [e \in VALID_EMOTIONS |->
                              IF e \in DOMAIN fr.mouth_closed
                                THEN fr.mouth_closed[e] ELSE LegacyImage],
          mouth_open |-> [e \in VALID_EMOTIONS |->
                            IF e \in DOMAIN fr.mouth_open
                              THEN fr.mouth_open[e] ELSE LegacyImage]]

EmptyFrames == [kind |-> "frames", error |-> "none",
                mouth_closed |-> << >>, mouth_open |-> << >>]

load_character_assets(d) ==
  IF d.dir
    THEN LET fr == LoadStructured(d.files)
         IN  IF "normal" \notin DOMAIN fr.mouth_closed
               THEN load_legacy_fallback(d, fr)
               ELSE fr
    ELSE load_legacy_fallback(d, EmptyFrames)

(***************************************************************************)
(* table.get(emotion, table["normal"]): Python evaluates the default       *)
(* argument before the call, so the lookup of "normal" happens always.     *)
(***************************************************************************)
GetOrNormal(table, emotion) ==
  IF "normal" \notin DOMAIN table THEN KeyError
  ELSE IF emotion \in DOMAIN table THEN table[emotion]
  ELSE table["normal"]

\* video_composer.py 613-621: closed sprite first, then open sprite
ResolveAnimated(fr, emotion) ==
  LET c == GetOrNormal(fr.mouth_closed, emotion)
      o == GetOrNormal(fr.mouth_open, emotion)
  IN  IF c = KeyError \/ o = KeyError
        THEN [kind |-> "error", error |-> "KeyError", closed |-> NoImage, open |-> NoImage]
        ELSE [kind |-> "sprites", error |-> "none", closed |-> c, open |-> o]

\* video_composer.py 583: the static clip needs the closed sprite only
ResolveStatic(fr, emotion) ==
  LET c == GetOrNormal(fr.mouth_closed, emotion)
  IN  IF c = KeyError
        THEN [kind |-> "error", error |-> "KeyError", closed |-> NoImage, open |-> NoImage]
        ELSE [kind |-> "sprites", error |-> "none", closed |-> c, open |-> NoImage]

NoSprites == [emotion |-> "none",
              found |-> [kind |-> "none", error |-> "none",
                         closed |-> NoImage, open |-> NoImage]]

RequestedEmotions == VALID_EMOTIONS \cup {"unknown"}

(***************************************************************************)
(* Ending bumper: the timeline arithmetic of _create_ending_clip           *)
(* (video_composer.py 286-322).  ENDING_FADE_IN, ENDING_FADE_OUT and       *)
(* ENDING_VOICE_GAP are imported from the configuration; the model takes   *)
(* them from ending_cfg.  A voice file exists iff its path is in the       *)
(* domain of the file table, whose value is the file's duration.           *)
(***************************************************************************)
EndingVoicePaths == {"ENDING_CALL_VOICE_TSUNO_PATH", "ENDING_CALL_VOICE_MEGANE_PATH",
                     "ENDING_VOICE_TSUNO_PATH", "ENDING_VOICE_MEGANE_PATH"}

NoEnding == [kind |-> "idle"]

None == [kind |-> "None"]

\* variant: the fade-out starts with megane's line, without the 0.5 s delay
EndingFadeOutStartNoDelay(megane_start) == megane_start

\* line 319-322: the fade-out starts 0.5 s after megane's line starts
EndingFadeOutStart(megane_start) == megane_start + 500

\* line 322: fade-out window, then 0.5 s with text and logo only
EndingDuration(fade_out_start, cfg) == fade_out_start + cfg.ENDING_FADE_OUT + 500

\* lines 291-548, reached when the call voice exists
EndingTimeline(cfg, files, imgs) ==
      LET call_dur == files["ENDING_CALL_VOICE_TSUNO_PATH"]
          call_clips ==
            << [path |-> "ENDING_CALL_VOICE_TSUNO_PATH",
                start |-> cfg.ENDING_FADE_IN, duration |-> call_dur] >>
            \o (IF "ENDING_CALL_VOICE_MEGANE_PATH" \in DOMAIN files
                  THEN << [path |-> "ENDING_CALL_VOICE_MEGANE_PATH",
                           start |-> cfg.ENDING_FADE_IN,
                           duration |-> files["ENDING_CALL_VOICE_MEGANE_PATH"]] >>
                  ELSE << >>)
          tsuno_start == cfg.ENDING_FADE_IN + call_dur + cfg.ENDING_VOICE_GAP
          tsuno_dur == IF "ENDING_VOICE_TSUNO_PATH" \in DOMAIN files
                         THEN files["ENDING_VOICE_TSUNO_PATH"] ELSE 0
          tsuno_clips == IF "ENDING_VOICE_TSUNO_PATH" \in DOMAIN files
                           THEN << [path |-> "ENDING_VOICE_TSUNO_PATH",
                                    start |-> tsuno_start, duration |-> tsuno_dur] >>
                           ELSE << >>
          megane_start == tsuno_start + tsuno_dur + cfg.ENDING_VOICE_GAP
          megane_dur == IF "ENDING_VOICE_MEGANE_PATH" \in DOMAIN files
                          THEN files["ENDING_VOICE_MEGANE_PATH"] ELSE 0
          megane_clips == IF "ENDING_VOICE_MEGANE_PATH" \in DOMAIN files
                            THEN << [path |-> "ENDING_VOICE_MEGANE_PATH",
                                     start |-> megane_start, duration |-> megane_dur] >>
                            ELSE << >>
          fade_out_start == EndingFadeOutStart(megane_start)
          duration == EndingDuration(fade_out_start, cfg)
          tsuno_assets == load_character_assets(imgs["tsuno"])
          megane_assets == load_character_assets(imgs["megane"])
      IN  IF tsuno_assets.kind = "error" THEN [kind |-> "error", error |-> tsuno_assets.error]
          ELSE IF megane_assets.kind = "error"
            THEN [kind |-> "error", error |-> megane_assets.error]
          ELSE [kind |-> "ending", duration |-> duration,
                call_dur |-> call_dur,
                tsuno_start |-> tsuno_start, tsuno_dur |-> tsuno_dur,
                megane_start |-> megane_start, megane_dur |-> megane_dur,
                fade_out_start |-> fade_out_start,
                audio_clips |-> call_clips \o tsuno_clips \o megane_clips]

\* an opacity or gain factor is a fraction [num, den]
Full == [num |-> 1, den |-> 1]

\* variant: the characters fade in and then stay
char_opacityNoFadeOut(t, cfg, fade_out_start) ==
  IF t < cfg.ENDING_FADE_IN
    THEN [num |-> t, den |-> cfg.ENDING_FADE_IN]
    ELSE Full

\* lines 360-366: opacity of the two characters at time t (ms)
char_opacity(t, cfg, fade_out_start) ==
  IF t < cfg.ENDING_FADE_IN
    THEN [num |-> t, den |-> cfg.ENDING_FADE_IN]
  ELSE IF t < fade_out_start
    THEN Full
  ELSE [num |-> Max(0, cfg.ENDING_FADE_OUT - (t - fade_out_start)),
        den |-> cfg.ENDING_FADE_OUT]

\* lines 368-372: opacity of the logo and of the call-to-action text
static_opacity(t, cfg) ==
  IF t < cfg.ENDING_FADE_IN
    THEN [num |-> t, den |-> cfg.ENDING_FADE_IN]
    ELSE Full

\* lines 542-543: AudioFadeOut(ENDING_FADE_OUT) on the mix cut to `duration`; the
\* effect scales the sound at time t by min((clip duration - t) / fade, 1)
AudioFadeOut(t, clip_duration, fade) ==
  [num |-> Min(clip_duration - t, fade), den |-> fade]

\* variant: no existence check, a missing call voice is opened and raises
create_ending_clipRaising(cfg, files, imgs) ==
  IF "ENDING_CALL_VOICE_TSUNO_PATH" \notin DOMAIN files
    THEN [kind |-> "error", error |-> "FileNotFoundError"]
    ELSE EndingTimeline(cfg, files, imgs)

\* variant: no existence check, a missing call voice counts as an empty clip
create_ending_clipUnchecked(cfg, files, imgs) ==
  EndingTimeline(cfg,
                 [p \in DOMAIN files \cup {"ENDING_CALL_VOICE_TSUNO_PATH"} |->
                    IF p \in DOMAIN files THEN files[p] ELSE 0],
                 imgs)

\* lines 286-289: without the call voice there is no ending
create_ending_clip(cfg, files, imgs) ==
  IF "ENDING_CALL_VOICE_TSUNO_PATH" \notin DOMAIN files
    THEN None
    ELSE EndingTimeline(cfg, files, imgs)

(***************************************************************************)
(* Scene assembly of compose_landscape (video_composer.py 655-828).        *)
(***************************************************************************)
VIDEO_FPS == 24

OPENING_DURATION == 7000

LIPSYNC_THRESHOLD == [num |-> 3, den |-> 20]

LIPSYNC_MIN_OPEN_FRAMES == 2

CHARACTERS == {"tsuno", "megane"}

\* variant: any bytes are taken for an audio file
AudioFileClipOpensAlways(audio) == TRUE

\* line 705: AudioFileClip(str(audio_path)) raises for a file that is no audio file
AudioFileClipOpens(audio) == audio.readable

\* AudioFileClip(path).duration, in ms
AudioDuration(clip) == (clip.n_frames * 1000) \div clip.sample_rate

\* line 719: getattr(line, "emotion", "normal") or "normal"
LineEmotion(line) == IF line.emotion = "" THEN "normal" ELSE line.emotion

create_opening_clip == [kind |-> "opening", duration |-> OPENING_DURATION]

\* lines 593-652
create_animated_character_clip(fr, emotion, mouth_states, duration, brightness, scale) ==
  LET found == ResolveAnimated(fr, emotion)
  IN  IF found.kind = "error"
        THEN [kind |-> "error", error |-> found.error]
        ELSE [kind |-> "animated", brightness |-> brightness, scale |-> scale,
              closed |-> found.closed, open |-> found.open,
              mouth_states |-> mouth_states, duration |-> duration]

\* lines 575-590
create_static_character_clip(fr, emotion, duration, brightness, scale) ==
  LET found == ResolveStatic(fr, emotion)
  IN  IF found.kind = "error"
        THEN [kind |-> "error", error |-> found.error]
        ELSE [kind |-> "static", brightness |-> brightness, scale |-> scale,
              closed |-> found.closed, open |-> NoImage,
              mouth_states |-> << >>, duration |-> duration]

\* variant: the inactive speaker is not dimmed
CharacterClipNoDim(fr, active, emotion, mouth_states, duration) ==
  LET scale == IF active THEN 110 ELSE 100
  IN  IF active
        THEN create_animated_character_clip(fr, emotion, mouth_states, duration, 100, scale)
        ELSE create_static_character_clip(fr, emotion, duration, 100, scale)

\* lines 729-740 and 753-764: the clip of one character for one line
CharacterClip(fr, active, emotion, mouth_states, duration) ==
  LET brightness == IF active THEN 100 ELSE 50
      scale == IF active THEN 110 ELSE 100
  IN  IF active
        THEN create_animated_character_clip(fr, emotion, mouth_states, duration,
                                            brightness, scale)
        ELSE create_static_character_clip(fr, emotion, duration, brightness, scale)

\* the line and audio path taken by iteration i of `for ... in enumerate(zip(...))`
ZipLength(lines, paths) == Min(Len(lines), Len(paths))

\* variant: every scene takes the first audio path
ScenePathFirst(paths, i) == paths[1]

ScenePath(paths, i) == paths[i]

\* lines 704-810: one iteration of the loop, for the i-th pair of zip(dialogue, audio_paths)
BuildScene(lines, paths, files, loaded, i) ==
  LET line == lines[i]
      audio_path == ScenePath(paths, i)
      audio == files[audio_path]
      duration == AudioDuration(audio)
      tsuno_active == line.speaker = "tsuno"
      megane_active == line.speaker = "megane"
      emotion == LineEmotion(line)
      analysed == analyze_mouth_states(audio, VIDEO_FPS, LIPSYNC_THRESHOLD,
                                       LIPSYNC_MIN_OPEN_FRAMES)
      tsuno_clip == CharacterClip(loaded["tsuno"], tsuno_active, emotion,
                                  analysed.states, duration)
      megane_clip == CharacterClip(loaded["megane"], megane_active, emotion,
                                   analysed.states, duration)
  IN  IF ~AudioFileClipOpens(audio) THEN [kind |-> "error", error |-> "OSError"]
      ELSE IF analysed.kind = "error" THEN [kind |-> "error", error |-> analysed.error]
      ELSE IF tsuno_clip.kind = "error" THEN [kind |-> "error", error |-> tsuno_clip.error]
      ELSE IF megane_clip.kind = "error" THEN [kind |-> "error", error |-> megane_clip.error]
      ELSE [kind |-> "scene", line |-> i, audio |-> audio_path, duration |-> duration,
            tsuno |-> tsuno_clip, megane |-> megane_clip]

\* concatenate_videoclips(clips, method="compose"): same order, durations add up
RECURSIVE TotalDuration(_)
TotalDuration(cs) == IF cs = << >> THEN 0 ELSE Head(cs).duration + TotalDuration(Tail(cs))

\* variant: consecutive clips overlap by a 100 ms transition
concatenate_videoclipsOverlap(cs) ==
  [kind |-> "video", clips |-> cs,
   duration |-> TotalDuration(cs) - 100 * (Len(cs) - 1)]

concatenate_videoclips(cs) == [kind |-> "video", clips |-> cs, duration |-> TotalDuration(cs)]

\* variant: the index is not clamped to the last entry
FrameIndexUnclamped(t, rate, mouth_states) == (t * rate) \div 1000

\* lines 629-631: frame_idx = min(int(t * fps), len(mouth_states) - 1), t in ms
FrameIndex(t, rate, mouth_states) == Min((t * rate) \div 1000, Len(mouth_states) - 1)

\* mouth_states[frame_idx] for a non-negative index (entries are numbered from 0)
MouthLookup(mouth_states, frame_idx) ==
  IF frame_idx >= 0 /\ frame_idx < Len(mouth_states)
    THEN IF mouth_states[frame_idx + 1] THEN "open" ELSE "closed"
    ELSE "IndexError"

(***************************************************************************)
(* Idle values of the parts a specification does not exercise.             *)
(***************************************************************************)
IdleAnalyzer ==
  /\ wav = [n_channels |-> 1, sample_width |-> 2, sample_rate |-> 2,
            n_frames |-> 0, pcm |-> << >>]
  /\ fps = 1
  /\ threshold = [num |-> 3, den |-> 20]
  /\ min_open_frames = 2
  /\ mouth = Idle

IdleAssets ==
  /\ disk = [dir |-> FALSE, files |-> {}, legacy |-> TRUE]
  /\ frames = NoFrames
  /\ sprites = NoSprites

LegacyOnly == [dir |-> FALSE, files |-> {}, legacy |-> TRUE]

NoArgs == [entry |-> "none", theme |-> FALSE, script |-> FALSE, draft |-> FALSE,
           thumbnail |-> FALSE, confirm |-> FALSE]

IdleStartup ==
  /\ cli_args = NoArgs
  /\ font_exists = TRUE
  /\ script_exists = FALSE
  /\ main_pc = "idle"
  /\ steps = << >>
  /\ exit_code = -1

NoFrame == [kind |-> "none"]

IdleBumpers ==
  /\ opening_probe = NoFrame
  /\ ending_probe = NoFrame

NoSizes == [kind |-> "none"]

IdleBounce ==
  /\ portrait = NoSizes
  /\ position_probe = NoFrame

IdleRender ==
  /\ sprite_dirs = << >>
  /\ loaded_frames = << >>
  /\ pixels = << >>
  /\ drawn = << >>

NoRetry == [pc |-> "idle", attempt |-> 0, rate_attempt |-> 0, outcome |-> "none"]

IdleRetry ==
  /\ caller = "none"
  /\ retry = NoRetry
  /\ history = << >>

NoText == [kind |-> "none"]

IdleText ==
  /\ text_in = NoText
  /\ wrapped = NoText

NoLines == [kind |-> "none"]

IdleShorts ==
  /\ shorts_in = NoLines
  /\ shorts_out = NoLines

Missing == [present |-> FALSE]

NoDirectory ==
  [exists |-> FALSE, script |-> Missing, landscape |-> FALSE, portrait |-> FALSE,
   x_post |-> Missing, upload_info |-> Missing]

IdlePublish ==
  /\ output_dir = NoDirectory
  /\ tweets = << >>

IdleSide ==
  /\ IdleBounce
  /\ IdleRender
  /\ IdleRetry
  /\ IdleText
  /\ IdleShorts
  /\ IdlePublish

IdleInputs ==
  /\ dialogue = << >>
  /\ synth = << >>
  /\ title = ""
  /\ opening_logo = FALSE
  /\ images_dir = [c \in CHARACTERS |-> LegacyOnly]

IdleEnding ==
  /\ ending_cfg = [ENDING_FADE_IN |-> 500, ENDING_FADE_OUT |-> 1000,
                   ENDING_VOICE_GAP |-> 300]
  /\ ending_files = << >>
  /\ ending = NoEnding

NoProbe == [kind |-> "none"]

NoVideo == [kind |-> "none"]

NoFile == [exists |-> FALSE]

IdleCompose ==
  /\ pc = "idle"
  /\ audio_paths = << >>
  /\ audio_files = << >>
  /\ assets = [c \in CHARACTERS |-> NoFrames]
  /\ clips = << >>
  /\ error = "none"
  /\ final = NoVideo
  /\ output = NoFile
  /\ probe = NoProbe

(***************************************************************************)
(* Analyser specification: any bounded clip and parameters, then one call. *)
(***************************************************************************)
\* every clip whose file holds at most MaxSamples interleaved samples
WavFiles ==
  UNION { UNION { { [n_channels |-> c, sample_width |-> w, sample_rate |-> r,
                     n_frames |-> n, pcm |-> p] :
                    p \in [1..n -> [1..c -> Amplitudes]], w \in SampleWidths,
                    r \in SampleRates } :
                  n \in 0..(MaxSamples \div c) } :
          c \in Channels }


InitAnalyze ==
  /\ IdleSide
  /\ IdleAssets
  /\ IdleInputs
  /\ IdleStartup
  /\ IdleBumpers
  /\ IdleEnding
  /\ IdleCompose
  /\ wav \in WavFiles
  /\ fps \in FrameRates
  /\ threshold \in Thresholds
  /\ min_open_frames \in MinOpenChoices
  /\ mouth = Idle

Analyze ==
  /\ mouth.kind = "idle"
  /\ mouth' = analyze_mouth_states(wav, fps, threshold, min_open_frames)
  /\ UNCHANGED << wav, fps, threshold, min_open_frames >>
  /\ UNCHANGED << assetVars, endingVars, inputVars, startupVars, bumperVars, composeVars, sideVars >>

NextAnalyze == Analyze

SpecAnalyze == InitAnalyze /\ [][NextAnalyze]_vars

(***************************************************************************)
(* Asset specification: any content of the asset directory, one load,      *)
(* then sprite resolutions for requested emotions.                         *)
(***************************************************************************)
DiskStates == [dir : BOOLEAN, files : SUBSET SpriteFiles, legacy : BOOLEAN]

InitAssets ==
  /\ IdleSide
  /\ IdleAnalyzer
  /\ IdleInputs
  /\ IdleStartup
  /\ IdleBumpers
  /\ IdleEnding
  /\ IdleCompose
  /\ disk \in {d \in DiskStates : d.dir \/ d.files = {}}
  /\ frames = NoFrames
  /\ sprites = NoSprites

LoadAssets ==
  /\ frames.kind = "none"
  /\ frames' = load_character_assets(disk)
  /\ UNCHANGED << disk, sprites >>
  /\ UNCHANGED << analyzerVars, endingVars, inputVars, startupVars, bumperVars, composeVars, sideVars >>

ResolveSprites ==
  /\ frames.kind = "frames"
  /\ \E emotion \in RequestedEmotions :
       sprites' = [emotion |-> emotion, found |-> ResolveAnimated(frames, emotion)]
  /\ UNCHANGED << disk, frames >>
  /\ UNCHANGED << analyzerVars, endingVars, inputVars, startupVars, bumperVars, composeVars, sideVars >>

NextAssets == LoadAssets \/ ResolveSprites

SpecAssets == InitAssets /\ [][NextAssets]_vars

(***************************************************************************)
(* Ending specification: any configuration and any set of ending voice     *)
(* files, then one call of _create_ending_clip.                            *)
(***************************************************************************)
EndingConfigs == [ENDING_FADE_IN : {500, 1000}, ENDING_FADE_OUT : {1000, 2000},
                  ENDING_VOICE_GAP : {0, 300}]

VoiceDurations == {700, 1500}

EndingFileTables ==
  UNION { [present -> VoiceDurations] : present \in SUBSET EndingVoicePaths }

InitEnding ==
  /\ IdleSide
  /\ IdleAnalyzer
  /\ IdleAssets
  /\ IdleInputs
  /\ IdleStartup
  /\ IdleBumpers
  /\ IdleCompose
  /\ ending_cfg \in EndingConfigs
  /\ ending_files \in EndingFileTables
  /\ ending = NoEnding

CreateEnding ==
  /\ ending.kind = "idle"
  /\ ending' = create_ending_clip(ending_cfg, ending_files, images_dir)
  /\ UNCHANGED << ending_cfg, ending_files >>
  /\ UNCHANGED << analyzerVars, assetVars, inputVars, startupVars, bumperVars, composeVars, sideVars >>

\* the times at which a frame of an ending of the given duration is evaluated
EndingTimes(duration) == {100 * k : k \in 0..(duration \div 100)}

\* the renderer asks the ending for its frame and its sound at time t
SampleEnding ==
  /\ ending.kind = "ending"
  /\ ending_probe = NoFrame
  /\ \E t \in EndingTimes(ending.duration) :
       ending_probe' =
         [kind |-> "frame", t |-> t,
          char_opacity |-> char_opacity(t, ending_cfg, ending.fade_out_start),
          static_opacity |-> static_opacity(t, ending_cfg),
          audio_gain |-> AudioFadeOut(t, ending.duration, ending_cfg.ENDING_FADE_OUT)]
  /\ UNCHANGED << endingVars, opening_probe >>
  /\ UNCHANGED << analyzerVars, assetVars, inputVars, startupVars, composeVars, sideVars >>

NextEnding ==
  \/ CreateEnding
  \/ SampleEnding

SpecEnding == InitEnding /\ [][NextEnding]_vars

(***************************************************************************)
(* Pipeline specification: speech generation followed by compose_landscape *)
(* as main() runs them (main.py 282-298), on any bounded script.           *)
(***************************************************************************)
MaxLines == 2

Speakers == CHARACTERS \cup {"other"}

LineEmotions == {"normal", "happy"}

DialogueLines == [speaker : Speakers, emotion : LineEmotions]

\* what the speech server may return: 375 ms of speech, 250 ms of stereo silence,
\* or bytes that are no audio file
ClipNames == {"speech", "silence", "corrupt"}

Clip(name) ==
  IF name = "speech"
    THEN [readable |-> TRUE,
          n_channels |-> 1, sample_width |-> 2, sample_rate |-> 8, n_frames |-> 3,
          pcm |-> << << 1 >>, << 0 >>, << -2 >> >>]
  ELSE IF name = "silence"
    THEN [readable |-> TRUE,
          n_channels |-> 2, sample_width |-> 2, sample_rate |-> 4, n_frames |-> 1,
          pcm |-> << << 0, 0 >> >>]
  ELSE [readable |-> FALSE,
        n_channels |-> 1, sample_width |-> 2, sample_rate |-> 8, n_frames |-> 1,
        pcm |-> << << 1 >> >>]

NormalOnly == [dir |-> TRUE, legacy |-> TRUE,
               files |-> {<< "normal", "closed" >>, << "normal", "open" >>}]

NoNormalOpen == [dir |-> TRUE, legacy |-> TRUE,
                 files |-> {<< "normal", "closed" >>, << "happy", "closed" >>,
                            << "happy", "open" >>}]

\* the image directories of a run: legacy images only, complete normal sprites, or
\* one character without normal_open.png
PipelineImageDirs ==
  { [tsuno |-> LegacyOnly, megane |-> LegacyOnly],
    [tsuno |-> NormalOnly, megane |-> NormalOnly],
    [tsuno |-> NoNormalOpen, megane |-> NormalOnly],
    [tsuno |-> LegacyOnly, megane |-> NoNormalOpen] }

\* a line the run cannot render: unknown speaker or unreadable audio
FaultyLine(line, clip) == line.speaker \notin CHARACTERS \/ clip = "corrupt"

AllEndingVoices == [p \in EndingVoicePaths |-> IF p = "ENDING_VOICE_MEGANE_PATH"
                                                 THEN 1500 ELSE 700]

\* times (ms) at which a renderer may ask an animated clip for a frame
SampleTimes == {0, 375, 1000}

Init ==
  /\ IdleSide
  /\ IdleAnalyzer
  /\ IdleAssets
  /\ IdleStartup
  /\ IdleBumpers
  /\ \E n \in 1..MaxLines :
       /\ dialogue \in [1..n -> DialogueLines]
       /\ synth \in [1..n -> ClipNames]
       /\ \A i, j \in 1..n :
            (FaultyLine(dialogue[i], synth[i]) /\ FaultyLine(dialogue[j], synth[j])) => i = j
  /\ title \in {"", "T"}
  /\ opening_logo \in BOOLEAN
  /\ title = "" => opening_logo
  /\ images_dir \in PipelineImageDirs
  /\ ending_cfg = [ENDING_FADE_IN |-> 500, ENDING_FADE_OUT |-> 1000,
                   ENDING_VOICE_GAP |-> 300]
  /\ ending_files \in {<< >>, AllEndingVoices}
  /\ ending = NoEnding
  /\ pc = "generate_audio"
  /\ audio_paths = << >>
  /\ audio_files = << >>
  /\ assets = [c \in CHARACTERS |-> NoFrames]
  /\ clips = << >>
  /\ error = "none"
  /\ final = NoVideo
  /\ output = NoFile
  /\ probe = NoProbe

\* variant: the speaker of a line is never looked up
UnknownSpeakersNone(lines) == {}

\* audio_generator.py 107-110: the lines whose speaker CHARACTERS.get does not find
UnknownSpeakers(lines) == {i \in 1..Len(lines) : lines[i].speaker \notin CHARACTERS}

\* AudioGenerator.generate (audio_generator.py 92-152): one WAV per line, in order;
\* the first line whose speaker is not configured raises ValueError
GenerateAudio ==
  /\ pc = "generate_audio"
  /\ LET unknown == UnknownSpeakers(dialogue)
         written == IF unknown = {} THEN Len(dialogue)
                    ELSE (CHOOSE i \in unknown : \A j \in unknown : i <= j) - 1
     IN  /\ audio_files' = [i \in 1..written |-> Clip(synth[i])]
         /\ IF unknown = {}
              THEN /\ audio_paths' = [i \in 1..written |-> i]
                   /\ pc' = "load_assets"
                   /\ error' = error
              ELSE /\ audio_paths' = audio_paths
                   /\ pc' = "failed"
                   /\ error' = "ValueError"
  /\ UNCHANGED << assets, clips, final, output, probe >>
  /\ UNCHANGED << analyzerVars, assetVars, endingVars, inputVars, startupVars, bumperVars, sideVars >>

\* compose_landscape 671-676
ComposeLoadAssets ==
  /\ pc = "load_assets"
  /\ LET tsuno_assets == load_character_assets(images_dir["tsuno"])
         megane_assets == load_character_assets(images_dir["megane"])
     IN  IF tsuno_assets.kind = "error" \/ megane_assets.kind = "error"
           THEN /\ pc' = "failed"
                /\ error' = "FileNotFoundError"
                /\ assets' = assets
           ELSE /\ pc' = "opening"
                /\ error' = error
                /\ assets' = [c \in CHARACTERS |->
                                IF c = "tsuno" THEN tsuno_assets ELSE megane_assets]
  /\ UNCHANGED << audio_paths, audio_files, clips, final, output, probe >>
  /\ UNCHANGED << analyzerVars, assetVars, endingVars, inputVars, startupVars, bumperVars, sideVars >>

\* compose_landscape 697-702
ComposeOpening ==
  /\ pc = "opening"
  /\ clips' = IF title # "" /\ opening_logo THEN << create_opening_clip >> ELSE << >>
  /\ pc' = "scenes"
  /\ UNCHANGED << audio_paths, audio_files, assets, error, final, output, probe >>
  /\ UNCHANGED << analyzerVars, assetVars, endingVars, inputVars, startupVars, bumperVars, sideVars >>

ScenesBuilt == Cardinality({k \in 1..Len(clips) : clips[k].kind = "scene"})

\* compose_landscape 704-810: the next iteration of the loop
ComposeScene ==
  /\ pc = "scenes"
  /\ ScenesBuilt < ZipLength(dialogue, audio_paths)
  /\ LET scene == BuildScene(dialogue, audio_paths, audio_files, assets, ScenesBuilt + 1)
     IN  IF scene.kind = "error"
           THEN /\ pc' = "failed"
                /\ error' = scene.error
                /\ clips' = clips
           ELSE /\ pc' = pc
                /\ error' = error
                /\ clips' = Append(clips, scene)
  /\ UNCHANGED << audio_paths, audio_files, assets, final, output, probe >>
  /\ UNCHANGED << analyzerVars, assetVars, endingVars, inputVars, startupVars, bumperVars, sideVars >>

\* compose_landscape 812-815
ComposeEnding ==
  /\ pc = "scenes"
  /\ ScenesBuilt = ZipLength(dialogue, audio_paths)
  /\ LET made == create_ending_clip(ending_cfg, ending_files, images_dir)
     IN  /\ ending' = made
         /\ IF made.kind = "error"
              THEN /\ pc' = "failed"
                   /\ error' = made.error
                   /\ clips' = clips
              ELSE /\ pc' = "concatenate"
                   /\ error' = error
                   /\ clips' = IF made.kind = "None" THEN clips ELSE Append(clips, made)
  /\ UNCHANGED << ending_cfg, ending_files >>
  /\ UNCHANGED << audio_paths, audio_files, assets, final, output, probe >>
  /\ UNCHANGED << analyzerVars, assetVars, inputVars, startupVars, bumperVars, sideVars >>

\* compose_landscape 818
Concatenate ==
  /\ pc = "concatenate"
  /\ final' = concatenate_videoclips(clips)
  /\ pc' = "render"
  /\ UNCHANGED << audio_paths, audio_files, assets, clips, error, output, probe >>
  /\ UNCHANGED << analyzerVars, assetVars, endingVars, inputVars, startupVars, bumperVars, sideVars >>

\* the renderer evaluates the frame function of the active character of scene k at time t
SampleFrame ==
  /\ pc = "render"
  /\ \E k \in 1..Len(final.clips), t \in SampleTimes :
       /\ final.clips[k].kind = "scene"
       /\ "animated" \in {final.clips[k].tsuno.kind, final.clips[k].megane.kind}
       /\ LET scene == final.clips[k]
              clip == IF scene.tsuno.kind = "animated" THEN scene.tsuno ELSE scene.megane
              frame_idx == FrameIndex(t, VIDEO_FPS, clip.mouth_states)
          IN  probe' = [kind |-> "sampled", clip |-> k, t |-> t,
                        frames |-> Len(clip.mouth_states), frame_idx |-> frame_idx,
                        mouth |-> MouthLookup(clip.mouth_states, frame_idx)]
  /\ UNCHANGED << pc, audio_paths, audio_files, assets, clips, error, final, output >>
  /\ UNCHANGED << analyzerVars, assetVars, endingVars, inputVars, startupVars, bumperVars, sideVars >>

\* compose_landscape 819-828: the file is written and the clips are closed
WriteVideo ==
  /\ pc = "render"
  /\ output' = [exists |-> TRUE, clips |-> final.clips, duration |-> final.duration]
  /\ pc' = "done"
  /\ probe' = NoProbe
  /\ UNCHANGED << audio_paths, audio_files, assets, clips, error, final >>
  /\ UNCHANGED << analyzerVars, assetVars, endingVars, inputVars, startupVars, bumperVars, sideVars >>

Next ==
  \/ GenerateAudio
  \/ ComposeLoadAssets
  \/ ComposeOpening
  \/ ComposeScene
  \/ ComposeEnding
  \/ Concatenate
  \/ SampleFrame
  \/ WriteVideo

Spec == Init /\ [][Next]_vars

(***************************************************************************)
(* Start of a run: main() of src/main.py and HebodanCLI.cmd_run of         *)
(* src/cli.py.  `steps` records the environment check and every            *)
(* generation step in the order they are executed.                         *)
(***************************************************************************)
EntryPoints == {"main", "cmd_run"}

CommandLines == [entry : EntryPoints, theme : BOOLEAN, script : BOOLEAN,
                 draft : BOOLEAN, thumbnail : BOOLEAN, confirm : BOOLEAN]

GenerationSteps == {"script", "background", "audio", "thumbnail", "landscape", "portrait"}

RenderSteps == << "audio", "thumbnail", "landscape", "portrait" >>

\* main.py 106-305 and cli.py 103-229: the generation steps of a run, in order
Plan(args) ==
  IF args.script
    THEN IF args.entry = "main" /\ args.thumbnail THEN << "thumbnail" >> ELSE RenderSteps
  ELSE IF args.entry = "main"
    THEN << "script", "background" >> \o (IF args.draft THEN << >> ELSE RenderSteps)
  ELSE << "script", "background" >> \o (IF args.confirm THEN RenderSteps ELSE << >>)

\* variant: the check returns whether the font exists or not
validate_environmentLax(font) == -1

\* main.py 56-64, cli.py 55-63: sys.exit(1) without the font, plain return (-1) with it
validate_environment(font) == IF ~font THEN 1 ELSE -1

InitStartup ==
  /\ IdleSide
  /\ IdleAnalyzer
  /\ IdleAssets
  /\ IdleInputs
  /\ IdleEnding
  /\ IdleCompose
  /\ IdleBumpers
  /\ cli_args \in CommandLines
  /\ font_exists \in BOOLEAN
  /\ script_exists \in BOOLEAN
  /\ main_pc = IF cli_args.entry = "main" THEN "parse_args" ELSE "validate"
  /\ steps = << >>
  /\ exit_code = -1

\* main.py 98-100: parser.error exits with status 2
ParseArgs ==
  /\ main_pc = "parse_args"
  /\ IF ~cli_args.theme /\ ~cli_args.script
       THEN main_pc' = "exited" /\ exit_code' = 2
       ELSE main_pc' = "validate" /\ exit_code' = exit_code
  /\ UNCHANGED << cli_args, font_exists, script_exists, steps >>
  /\ UNCHANGED << analyzerVars, assetVars, endingVars, inputVars, composeVars, bumperVars, sideVars >>

\* main.py 102, cli.py 100
ValidateEnvironment ==
  /\ main_pc = "validate"
  /\ steps' = Append(steps, "validate_environment")
  /\ LET status == validate_environment(font_exists)
     IN  IF status # -1
           THEN main_pc' = "exited" /\ exit_code' = status
           ELSE main_pc' = "dispatch" /\ exit_code' = exit_code
  /\ UNCHANGED << cli_args, font_exists, script_exists >>
  /\ UNCHANGED << analyzerVars, assetVars, endingVars, inputVars, composeVars, bumperVars, sideVars >>

\* main.py 107-111, cli.py 104-108 and 121-124: the script file or the theme is missing
Dispatch ==
  /\ main_pc = "dispatch"
  /\ IF \/ cli_args.script /\ ~script_exists
        \/ ~cli_args.script /\ ~cli_args.theme
       THEN main_pc' = "exited" /\ exit_code' = 1
       ELSE main_pc' = "generate" /\ exit_code' = exit_code
  /\ UNCHANGED << cli_args, font_exists, script_exists, steps >>
  /\ UNCHANGED << analyzerVars, assetVars, endingVars, inputVars, composeVars, bumperVars, sideVars >>

\* the next generation step of the run
RunStep ==
  /\ main_pc = "generate"
  /\ Len(steps) - 1 < Len(Plan(cli_args))
  /\ steps' = Append(steps, Plan(cli_args)[Len(steps)])
  /\ UNCHANGED << cli_args, font_exists, script_exists, main_pc, exit_code >>
  /\ UNCHANGED << analyzerVars, assetVars, endingVars, inputVars, composeVars, bumperVars, sideVars >>

\* the run returns after its last step
Finish ==
  /\ main_pc = "generate"
  /\ Len(steps) - 1 = Len(Plan(cli_args))
  /\ main_pc' = "exited"
  /\ exit_code' = 0
  /\ UNCHANGED << cli_args, font_exists, script_exists, steps >>
  /\ UNCHANGED << analyzerVars, assetVars, endingVars, inputVars, composeVars, bumperVars, sideVars >>

NextStartup ==
  \/ ParseArgs
  \/ ValidateEnvironment
  \/ Dispatch
  \/ RunStep
  \/ Finish

SpecStartup == InitStartup /\ [][NextStartup]_vars

(***************************************************************************)
(* Opening bumper: the frame functions of _create_opening_clip             *)
(* (video_composer.py 99-218).  An opacity is the numerator of a fraction  *)
(* over FADE_WINDOW (the 0.5 s ramp in ms), a logo scale the numerator of  *)
(* a fraction over FullScale, so 0.5 is ZoomFrames - 1 and 1.0 is          *)
(* FullScale.                                                              *)
(***************************************************************************)
FADE_WINDOW == 500

\* line 100: zoom_frames = int(VIDEO_FPS * 2)
ZoomFrames == VIDEO_FPS * 2

FullScale == 2 * (ZoomFrames - 1)

\* variant: the logo appears at full opacity, without the fade-in ramp
logo_maskNoRamp(t) ==
  IF t < 1000 \/ t > OPENING_DURATION THEN 0
  ELSE IF t < 6500 THEN FADE_WINDOW
  ELSE Max(0, FADE_WINDOW - (t - 6500))

\* lines 162-171: opacity of the logo layer at time t (ms)
logo_mask(t) ==
  IF t < 1000 \/ t > OPENING_DURATION THEN 0
  ELSE IF t < 1500 THEN t - 1000
  ELSE IF t < 6500 THEN FADE_WINDOW
  ELSE Max(0, FADE_WINDOW - (t - 6500))

\* lines 102-104 and 173-177: scale of the logo bitmap drawn at time t, 0 when none is drawn
logo_scale(t) ==
  IF t < 1000 \/ t > OPENING_DURATION THEN 0
  ELSE IF t < 3000
    THEN LET frame_idx == Min(((t - 1000) * VIDEO_FPS) \div 1000, ZoomFrames - 1)
         IN  (ZoomFrames - 1) + frame_idx
  ELSE FullScale

\* variant: the title fades in half a second earlier
title_maskEarly(t) ==
  IF t < 2500 THEN 0
  ELSE IF t < 3000 THEN t - 2500
  ELSE IF t < 6500 THEN FADE_WINDOW
  ELSE Max(0, FADE_WINDOW - (t - 6500))

\* lines 209-218: opacity of the title layer at time t (ms)
title_mask(t) ==
  IF t < 3000 THEN 0
  ELSE IF t < 3500 THEN t - 3000
  ELSE IF t < 6500 THEN FADE_WINDOW
  ELSE Max(0, FADE_WINDOW - (t - 6500))

\* every millisecond of the clip and a little beyond its end
OpeningTimes == 0..(OPENING_DURATION + FADE_WINDOW)

InitOpening ==
  /\ IdleSide
  /\ IdleAnalyzer
  /\ IdleAssets
  /\ IdleInputs
  /\ IdleStartup
  /\ IdleEnding
  /\ IdleCompose
  /\ opening_probe = NoFrame
  /\ ending_probe = NoFrame

\* the renderer asks the opening for its frame at time t
SampleOpening ==
  /\ opening_probe = NoFrame
  /\ \E t \in OpeningTimes :
       opening_probe' = [kind |-> "frame", t |-> t,
                         logo_opacity |-> logo_mask(t),
                         logo_scale |-> logo_scale(t),
                         title_opacity |-> title_mask(t)]
  /\ UNCHANGED ending_probe
  /\ UNCHANGED << analyzerVars, assetVars, endingVars, inputVars, startupVars, composeVars, sideVars >>

NextOpening == SampleOpening

SpecOpening == InitOpening /\ [][NextOpening]_vars

(***************************************************************************)
(* Portrait ending: the two character sprites move like the ball of a      *)
(* block-breaker game (_create_ending_clip, is_portrait branch).           *)
(* Positions are pixels, times milliseconds; the float argument of _bounce *)
(* is kept exactly, in thousandths of a pixel.                             *)
(***************************************************************************)
MaxEndingMs == 10000

PORTRAIT_SIZE == << 1080, 1920 >>

\* char_h = int(height * 0.21), the height every sprite is scaled to
CharHeight(height) == (height * 21) \div 100

SpriteWidths == {150, 1030, 1080, 1300}

\* int() of a value given in thousandths: truncation toward zero
IntOfMilli(v) == IF v >= 0 THEN v \div 1000 ELSE 0 - ((0 - v) \div 1000)

\* variant: the phase returned without folding the second half of the period back
bounceNoFold(val, max_val) ==
  IF max_val <= 0 THEN 0 ELSE val % (2 * max_val)

\* Python's float % takes the sign of the divisor, as % does here for period > 0
bounce(val, max_val) ==
  IF max_val <= 0 THEN 0
  ELSE LET period == 2 * max_val
           rem == val % period
           phase == IF rem < 0 THEN rem + period ELSE rem
       IN  IF phase <= max_val THEN phase ELSE period - phase

\* position of the tsuno sprite at time t: starts top left, moves right and down
tsuno_position(t, sizes) ==
  LET mx == 1000 * (sizes.size[1] - sizes.tsuno[1])
      my == 1000 * (sizes.size[2] - sizes.tsuno[2])
  IN  << IntOfMilli(bounce(50000 + 420 * t, mx)),
         IntOfMilli(bounce(150000 + 340 * t, my)) >>

\* position of the megane sprite at time t: starts bottom right, moves left and down
megane_position(t, sizes) ==
  LET mg_sx == 1000 * (sizes.size[1] - sizes.megane[1] - 50)
      mg_sy == 1000 * ((sizes.size[2] * 6) \div 10)
      mx == 1000 * (sizes.size[1] - sizes.megane[1])
      my == 1000 * (sizes.size[2] - sizes.megane[2])
  IN  << IntOfMilli(bounce(mg_sx - 380 * t, mx)),
         IntOfMilli(bounce(mg_sy + 300 * t, my)) >>

InitBounce ==
  /\ IdleRender
  /\ IdleRetry
  /\ IdleText
  /\ IdleShorts
  /\ IdlePublish
  /\ IdleAnalyzer
  /\ IdleAssets
  /\ IdleInputs
  /\ IdleStartup
  /\ IdleBumpers
  /\ IdleEnding
  /\ IdleCompose
  /\ \E tw \in SpriteWidths, mw \in SpriteWidths :
       portrait = [kind |-> "sizes", size |-> PORTRAIT_SIZE,
                   tsuno |-> << tw, CharHeight(PORTRAIT_SIZE[2]) >>,
                   megane |-> << mw, CharHeight(PORTRAIT_SIZE[2]) >>]
  /\ position_probe = NoFrame

\* the renderer asks both sprites for their position at time t
SamplePosition ==
  /\ position_probe = NoFrame
  /\ \E t \in 0..MaxEndingMs :
       position_probe' = [kind |-> "frame", t |-> t,
                          tsuno |-> tsuno_position(t, portrait),
                          megane |-> megane_position(t, portrait)]
  /\ UNCHANGED portrait
  /\ UNCHANGED << analyzerVars, assetVars, endingVars, inputVars, startupVars,
                  bumperVars, composeVars, renderVars, retryVars, textVars, shortsVars, publishVars >>

NextBounce == SamplePosition

SpecBounce == InitBounce /\ [][NextBounce]_vars

(***************************************************************************)
(* Sprite rendering: the image arrays behind the CharacterFrames and what  *)
(* _apply_brightness does to them.  An array is identified by its speaker  *)
(* and the file it was read from; its content is one representative pixel, *)
(* the RGB level (0..255) and the alpha value.  Brightness factors are     *)
(* percentages.  A call returns the heap after it and the image it made.   *)
(***************************************************************************)
MaxScenes == 3

\* a structured directory without normal_closed.png: the legacy image fills the gaps
NoNormalClosed == [dir |-> TRUE, legacy |-> TRUE, files |-> {<< "normal", "open" >>}]

SpriteDirChoices == {LegacyOnly, NormalOnly, NoNormalClosed, NoNormalOpen}

\* the arrays a CharacterFrames refers to
ArraysOf(fr) ==
  {fr.mouth_closed[e] : e \in DOMAIN fr.mouth_closed}
    \cup {fr.mouth_open[e] : e \in DOMAIN fr.mouth_open}

\* np.array(img) of a freshly read file
AsLoaded == [rgb |-> 200, alpha |-> 255]

\* variant: the adjustment written into the array it was given
apply_brightnessInPlace(heap, arr, factor) ==
  LET result == [rgb |-> Min((heap[arr].rgb * factor) \div 100, 255),
                 alpha |-> heap[arr].alpha]
  IN  [heap |-> [heap EXCEPT ![arr] = result], image |-> result]

\* image_array.copy(), RGB scaled and clipped, alpha kept
apply_brightness(heap, arr, factor) ==
  LET result == [rgb |-> Min((heap[arr].rgb * factor) \div 100, 255),
                 alpha |-> heap[arr].alpha]
  IN  [heap |-> heap, image |-> result]

NoPixels == [rgb |-> 0, alpha |-> 0]

\* a lookup of the sprite raised KeyError before anything was drawn
ImagesFailed(heap, brightness) ==
  [heap |-> heap, error |-> "KeyError", brightness |-> brightness,
   closed |-> NoPixels, open |-> NoPixels]

\* the images of _create_static_character_clip: the closed sprite, adjusted
StaticImages(heap, c, fr, emotion, brightness) ==
  IF ResolveStatic(fr, emotion).kind = "error" THEN ImagesFailed(heap, brightness)
  ELSE LET img == apply_brightness(heap, << c, ResolveStatic(fr, emotion).closed >>,
                                   brightness)
       IN  [heap |-> img.heap, error |-> "none", brightness |-> brightness,
            closed |-> img.image, open |-> img.image]

\* the images of _create_animated_character_clip: closed sprite, then open sprite;
\* the open sprite is looked up after the closed one has been adjusted
AnimatedImages(heap, c, fr, emotion, brightness) ==
  IF GetOrNormal(fr.mouth_closed, emotion) = KeyError THEN ImagesFailed(heap, brightness)
  ELSE LET closed_img == apply_brightness(heap,
                                          << c, GetOrNormal(fr.mouth_closed, emotion) >>,
                                          brightness)
       IN  IF GetOrNormal(fr.mouth_open, emotion) = KeyError
             THEN ImagesFailed(closed_img.heap, brightness)
             ELSE LET open_img == apply_brightness(closed_img.heap,
                                     << c, GetOrNormal(fr.mouth_open, emotion) >>,
                                     brightness)
                  IN  [heap |-> open_img.heap, error |-> "none", brightness |-> brightness,
                       closed |-> closed_img.image, open |-> open_img.image]

\* one character of one scene: animated at 1.0 when it speaks, static at 0.5 otherwise
CharacterImages(heap, c, fr, active, emotion) ==
  IF active THEN AnimatedImages(heap, c, fr, emotion, 100)
  ELSE StaticImages(heap, c, fr, emotion, 50)

InitRender ==
  /\ IdleAnalyzer
  /\ IdleAssets
  /\ IdleInputs
  /\ IdleStartup
  /\ IdleBumpers
  /\ IdleEnding
  /\ IdleCompose
  /\ IdleBounce
  /\ IdleRetry
  /\ IdleText
  /\ IdleShorts
  /\ IdlePublish
  /\ sprite_dirs \in [CHARACTERS -> SpriteDirChoices]
  /\ loaded_frames = << >>
  /\ pixels = << >>
  /\ drawn = << >>

\* compose_landscape / compose_portrait load both characters' frames once
RenderLoadAssets ==
  /\ loaded_frames = << >>
  /\ LET fr == [c \in CHARACTERS |-> load_character_assets(sprite_dirs[c])]
     IN  /\ loaded_frames' = fr
         /\ pixels' = [a \in UNION {{c} \X ArraysOf(fr[c]) : c \in CHARACTERS} |->
                         AsLoaded]
  /\ UNCHANGED << sprite_dirs, drawn >>
  /\ UNCHANGED << analyzerVars, assetVars, endingVars, inputVars, startupVars,
                  bumperVars, composeVars, bounceVars, retryVars, textVars, shortsVars, publishVars >>

\* what the scene loop keeps of one character's images
Drawn(img) ==
  [error |-> img.error, brightness |-> img.brightness,
   closed |-> img.closed, open |-> img.open]

NotDrawn == [error |-> "not built", brightness |-> 0, closed |-> NoPixels, open |-> NoPixels]

\* one iteration of the scene loop: the tsuno clip is built first, then the megane
\* clip; an exception in either ends the render
RenderScene ==
  /\ loaded_frames # << >>
  /\ \A c \in CHARACTERS : loaded_frames[c].kind = "frames"
  /\ Len(drawn) < MaxScenes
  /\ \A k \in 1..Len(drawn) : drawn[k].tsuno.error = "none" /\ drawn[k].megane.error = "none"
  /\ \E speaker \in CHARACTERS, emotion \in VALID_EMOTIONS :
       LET ts == CharacterImages(pixels, "tsuno", loaded_frames["tsuno"],
                                 speaker = "tsuno", emotion)
           mg == CharacterImages(ts.heap, "megane", loaded_frames["megane"],
                                 speaker = "megane", emotion)
       IN  IF ts.error # "none"
             THEN /\ pixels' = ts.heap
                  /\ drawn' = Append(drawn, [speaker |-> speaker, emotion |-> emotion,
                                             tsuno |-> Drawn(ts), megane |-> NotDrawn])
             ELSE /\ pixels' = mg.heap
                  /\ drawn' = Append(drawn, [speaker |-> speaker, emotion |-> emotion,
                                             tsuno |-> Drawn(ts), megane |-> Drawn(mg)])
  /\ UNCHANGED << sprite_dirs, loaded_frames >>
  /\ UNCHANGED << analyzerVars, assetVars, endingVars, inputVars, startupVars,
                  bumperVars, composeVars, bounceVars, retryVars, textVars, shortsVars, publishVars >>

NextRender ==
  \/ RenderLoadAssets
  \/ RenderScene

SpecRender == InitRender /\ [][NextRender]_vars

(***************************************************************************)
(* Retried calls to the generation service: ScriptGenerator.generate with  *)
(* _call_api inside it, and _generate_single of the background generator.  *)
(* What the service answers is chosen freely at every request.  The        *)
(* history records every request sent and every time.sleep, in seconds.    *)
(***************************************************************************)
BG_GENERATION_MAX_RETRIES == 3

BG_GENERATION_RETRY_BASE_WAIT == 5

\* ScriptGenerator._call_api(prompt, max_rate_retries = 5)
max_rate_retries == 5

\* ScriptGenerator.generate(theme, max_retries = 2)
max_retries == 2

RECURSIVE Pow2(_)
Pow2(n) == IF n = 0 THEN 1 ELSE 2 * Pow2(n - 1)

Request == [event |-> "request", seconds |-> 0]

Sleep(seconds) == [event |-> "sleep", seconds |-> seconds]

\* wait = 2 ** attempt * 10
rate_limit_wait(attempt) == Pow2(attempt) * 10

\* wait = 2 ** attempt * BG_GENERATION_RETRY_BASE_WAIT
bg_retry_wait(attempt) == Pow2(attempt) * BG_GENERATION_RETRY_BASE_WAIT

InitRetry ==
  /\ IdleAnalyzer
  /\ IdleAssets
  /\ IdleInputs
  /\ IdleStartup
  /\ IdleBumpers
  /\ IdleEnding
  /\ IdleCompose
  /\ IdleBounce
  /\ IdleRender
  /\ IdleText
  /\ IdleShorts
  /\ IdlePublish
  /\ caller \in {"script", "background"}
  /\ retry = [pc |-> "request", attempt |-> 0, rate_attempt |-> 0, outcome |-> "none"]
  /\ history = << >>

RetryFrame ==
  /\ UNCHANGED caller
  /\ UNCHANGED << analyzerVars, assetVars, endingVars, inputVars, startupVars,
                  bumperVars, composeVars, bounceVars, renderVars, textVars, shortsVars, publishVars >>

Done(outcome) == [retry EXCEPT !.pc = "done", !.outcome = outcome]

\* _call_api: the service answers 429; sleep and retry, or re-raise at the last attempt
ScriptRateLimited ==
  /\ caller = "script" /\ retry.pc = "request"
  /\ IF retry.rate_attempt < max_rate_retries
       THEN /\ history' = history \o << Request, Sleep(rate_limit_wait(retry.rate_attempt)) >>
            /\ retry' = [retry EXCEPT !.rate_attempt = @ + 1]
       ELSE /\ history' = Append(history, Request)
            /\ retry' = Done("ClientError")
  /\ RetryFrame

\* _call_api: any other ClientError is re-raised at once; generate does not catch it
ScriptClientError ==
  /\ caller = "script" /\ retry.pc = "request"
  /\ history' = Append(history, Request)
  /\ retry' = Done("ClientError")
  /\ RetryFrame

\* generate: the answer parses into a ScriptData
ScriptParsed ==
  /\ caller = "script" /\ retry.pc = "request"
  /\ history' = Append(history, Request)
  /\ retry' = Done("script")
  /\ RetryFrame

\* generate: JSONDecodeError or KeyError; next attempt, or RuntimeError at the last one
ScriptParseError ==
  /\ caller = "script" /\ retry.pc = "request"
  /\ history' = Append(history, Request)
  /\ IF retry.attempt = max_retries
       THEN retry' = Done("RuntimeError")
       ELSE retry' = [retry EXCEPT !.attempt = @ + 1, !.rate_attempt = 0]
  /\ RetryFrame

\* leaving the for loop of _generate_single after the given attempt
BgNextAttempt(attempt) ==
  IF attempt + 1 < BG_GENERATION_MAX_RETRIES
    THEN [retry EXCEPT !.attempt = attempt + 1]
    ELSE Done("False")

\* _generate_single: the answer holds an image part, which is saved
BgImage ==
  /\ caller = "background" /\ retry.pc = "request"
  /\ history' = Append(history, Request)
  /\ retry' = Done("True")
  /\ RetryFrame

\* _generate_single: the answer holds no image part; warning, next attempt
BgNoImage ==
  /\ caller = "background" /\ retry.pc = "request"
  /\ history' = Append(history, Request)
  /\ retry' = BgNextAttempt(retry.attempt)
  /\ RetryFrame

\* _generate_single: any exception; sleep unless this was the last attempt
BgException ==
  /\ caller = "background" /\ retry.pc = "request"
  /\ history' = IF retry.attempt < BG_GENERATION_MAX_RETRIES - 1
                  THEN history \o << Request, Sleep(bg_retry_wait(retry.attempt)) >>
                  ELSE Append(history, Request)
  /\ retry' = BgNextAttempt(retry.attempt)
  /\ RetryFrame

NextRetry ==
  \/ ScriptRateLimited
  \/ ScriptClientError
  \/ ScriptParsed
  \/ ScriptParseError
  \/ BgImage
  \/ BgNoImage
  \/ BgException

SpecRetry == InitRetry /\ [][NextRetry]_vars

(***************************************************************************)
(* Text wrapping of render_text (src/utils/text_renderer.py).  A string is *)
(* a sequence of characters.  font.getbbox is a font measurement: here the *)
(* width of a string is the sum of its characters' advances, in pixels.    *)
(***************************************************************************)
MaxTextLen == 4

\* a narrow letter, a wide letter, a zero-width mark and the line break
Advance == [a |-> 1, W |-> 2, m |-> 0, n |-> 0]

NewLine == "n"

TextChars == {"a", "W", "m", NewLine}

Texts == UNION {[1..k -> TextChars] : k \in 0..MaxTextLen}

MaxWidths == 1..5

StrokeWidths == {0, 1}

\* bbox[2] - bbox[0] of font.getbbox(line)
TextWidth(line) == SumSeq([k \in 1..Len(line) |-> Advance[line[k]]])

\* text.split("\n"): the pieces between line breaks, empty pieces included
RECURSIVE SplitLines(_, _)
SplitLines(text, piece) ==
  IF text = << >> THEN << piece >>
  ELSE IF Head(text) = NewLine THEN << piece >> \o SplitLines(Tail(text), << >>)
  ELSE SplitLines(Tail(text), Append(piece, Head(text)))

\* variant: a line is closed as soon as it reaches the limit (width >= max_width)
RECURSIVE WrapSegmentEager(_, _, _, _)
WrapSegmentEager(segment, max_width, current_line, lines) ==
  IF segment = << >> THEN Append(lines, current_line)
  ELSE LET test_line == Append(current_line, Head(segment))
       IN  IF TextWidth(test_line) >= max_width /\ current_line # << >>
             THEN WrapSegmentEager(Tail(segment), max_width, << Head(segment) >>,
                                   Append(lines, current_line))
             ELSE WrapSegmentEager(Tail(segment), max_width, test_line, lines)

\* lines 95-107: the loop over the characters of one segment, and the final append
RECURSIVE WrapSegment(_, _, _, _)
WrapSegment(segment, max_width, current_line, lines) ==
  IF segment = << >> THEN Append(lines, current_line)
  ELSE LET test_line == Append(current_line, Head(segment))
       IN  IF TextWidth(test_line) > max_width /\ current_line # << >>
             THEN WrapSegment(Tail(segment), max_width, << Head(segment) >>,
                              Append(lines, current_line))
             ELSE WrapSegment(Tail(segment), max_width, test_line, lines)

RECURSIVE WrapSegments(_, _, _)
WrapSegments(segments, max_width, lines) ==
  IF segments = << >> THEN lines
  ELSE WrapSegments(Tail(segments), max_width,
                    WrapSegment(Head(segments), max_width, << >>, lines))

wrap_text_by_width(text, max_width) ==
  WrapSegments(SplitLines(text, << >>), max_width, << >>)

InitText ==
  /\ IdleAnalyzer
  /\ IdleAssets
  /\ IdleInputs
  /\ IdleStartup
  /\ IdleBumpers
  /\ IdleEnding
  /\ IdleCompose
  /\ IdleBounce
  /\ IdleRender
  /\ IdleRetry
  /\ IdleShorts
  /\ IdlePublish
  /\ \E t \in Texts, w \in MaxWidths, sw \in StrokeWidths :
       text_in = [kind |-> "text", text |-> t, max_width |-> w, stroke_width |-> sw]
  /\ wrapped = NoText

\* render_text with max_width > 0: pixel wrapping inside the stroke margins
RenderText ==
  /\ wrapped = NoText
  /\ text_in.max_width > 0
  /\ wrapped' = [kind |-> "lines",
                 lines |-> wrap_text_by_width(text_in.text,
                             text_in.max_width - text_in.stroke_width * 2)]
  /\ UNCHANGED text_in
  /\ UNCHANGED << analyzerVars, assetVars, endingVars, inputVars, startupVars,
                  bumperVars, composeVars, bounceVars, renderVars, retryVars, shortsVars, publishVars >>

NextText == RenderText

SpecText == InitText /\ [][NextText]_vars

(***************************************************************************)
(* Portrait video: which dialogue lines compose_portrait builds scenes     *)
(* from (lines 1102-1121).  A line carries its position in the script and  *)
(* its shorts_skip flag; an audio path carries the position of the line it *)
(* was synthesised for and the duration of its clip in milliseconds.       *)
(***************************************************************************)
MaxShortsLines == 3

\* the limit the comments of compose_portrait call three minutes
SHORTS_MAX_DURATION == 180000

ShortsClipDurations == {1, 81500, 81501}

\* AudioGenerator.generate returns one path per line, in order
ShortsInputs ==
  UNION { { [kind |-> "lines",
             dialogue |-> [k \in 1..n |-> [n |-> k, shorts_skip |-> skip[k]]],
             audio_paths |-> [k \in 1..n |-> [n |-> k, duration |-> dur[k]]]] :
            skip \in [1..n -> BOOLEAN], dur \in [1..n -> ShortsClipDurations] } :
          n \in 0..MaxShortsLines }

\* total_audio_dur + OPENING_DURATION + 10.0
EstimatedTotal(paths) ==
  SumSeq([k \in 1..Len(paths) |-> paths[k].duration])
    + OPENING_DURATION + 10000

\* [(line, path) for line, path in zip(dialogue, audio_paths) if not line.shorts_skip]
RECURSIVE FilterSkipped(_, _, _)
FilterSkipped(lines, paths, k) ==
  IF k > Min(Len(lines), Len(paths)) THEN << >>
  ELSE (IF lines[k].shorts_skip THEN << >> ELSE << << lines[k], paths[k] >> >>)
         \o FilterSkipped(lines, paths, k + 1)

\* variant: flagged lines are dropped whatever the estimate
SelectForShortsAlways(lines, paths) ==
  LET filtered == FilterSkipped(lines, paths, 1)
  IN  [kind |-> "lines",
       dialogue |-> [k \in 1..Len(filtered) |-> filtered[k][1]],
       audio_paths |-> [k \in 1..Len(filtered) |-> filtered[k][2]]]

\* lines 1102-1121: the lists the scene loop runs over
SelectForShorts(lines, paths) ==
  LET filtered == FilterSkipped(lines, paths, 1)
  IN  IF EstimatedTotal(paths) > SHORTS_MAX_DURATION /\ Len(filtered) < Len(lines)
        THEN [kind |-> "lines",
              dialogue |-> [k \in 1..Len(filtered) |-> filtered[k][1]],
              audio_paths |-> [k \in 1..Len(filtered) |-> filtered[k][2]]]
        ELSE [kind |-> "lines", dialogue |-> lines, audio_paths |-> paths]

InitShorts ==
  /\ IdleAnalyzer
  /\ IdleAssets
  /\ IdleInputs
  /\ IdleStartup
  /\ IdleBumpers
  /\ IdleEnding
  /\ IdleCompose
  /\ IdleBounce
  /\ IdleRender
  /\ IdleRetry
  /\ IdleText
  /\ IdlePublish
  /\ shorts_in \in ShortsInputs
  /\ shorts_out = NoLines

ComposePortraitSelect ==
  /\ shorts_out = NoLines
  /\ shorts_out' = SelectForShorts(shorts_in.dialogue, shorts_in.audio_paths)
  /\ UNCHANGED shorts_in
  /\ UNCHANGED << analyzerVars, assetVars, endingVars, inputVars, startupVars,
                  bumperVars, composeVars, bounceVars, renderVars, retryVars, textVars, publishVars >>

NextShorts == ComposePortraitSelect

SpecShorts == InitShorts /\ [][NextShorts]_vars

(***************************************************************************)
(* Publishing: the commands generate, upload, shorts, post and run acting  *)
(* on one output directory.  A text is a sequence of parts; one part is    *)
(* the {youtube_url} placeholder the script prompt asks the writer to put  *)
(* into x_post_content.                                                    *)
(***************************************************************************)
MaxTweets == 2

Placeholder == "{youtube_url}"

\* youtube_uploader.py line 133: the URL upload_to_youtube returns
video_url == "https://youtu.be/id"

Blank == " "

\* x_post_content values a generated script may carry
XPostContents ==
  { << "text", Placeholder >>, << "text" >>, << Blank >>, << Blank, Placeholder, Blank >> }

File(text) == [present |-> TRUE, text |-> text]

\* str.replace(old, new)
replace(text, old, new) ==
  [i \in 1..Len(text) |-> IF text[i] = old THEN new ELSE text[i]]

RECURSIVE lstrip(_)
lstrip(text) ==
  IF text # << >> /\ Head(text) = Blank THEN lstrip(Tail(text)) ELSE text

RECURSIVE rstrip(_)
rstrip(text) ==
  IF text # << >> /\ text[Len(text)] = Blank
    THEN rstrip(SubSeq(text, 1, Len(text) - 1))
    ELSE text

\* str.strip()
strip(text) == rstrip(lstrip(text))

\* main.py 222-254 and cli.py 133-150: a new timestamped directory with script.json
NewDirectory(content) ==
  [NoDirectory EXCEPT !.exists = TRUE, !.script = File(content)]

\* main.py 283-314 and cli.py 199-234: both videos, then x_post.txt as the script has it
Composed(dir) ==
  [dir EXCEPT !.landscape = TRUE, !.portrait = TRUE, !.x_post = File(dir.script.text)]

\* main.py 154-189: --script mode composes both videos and writes no x_post.txt
Recomposed(dir) ==
  [dir EXCEPT !.landscape = TRUE, !.portrait = TRUE]

\* upload.py 90-110: after upload_to_youtube has returned
Uploaded(dir, public) ==
  [dir EXCEPT !.x_post = File(replace(dir.script.text, Placeholder, video_url)),
              !.upload_info = [present |-> TRUE, public |-> public, shorts |-> FALSE]]

\* upload_shorts.py 98-102
ShortsUploaded(dir) ==
  [dir EXCEPT !.upload_info.shorts = TRUE]

\* upload.py 59-68
CanUpload(dir) == dir.exists /\ dir.script.present /\ dir.landscape

\* upload_shorts.py 55-70
CanUploadShorts(dir) ==
  dir.exists /\ dir.script.present /\ dir.portrait /\ dir.upload_info.present

\* post_x.py 33-41
CanPost(dir) == dir.x_post.present /\ strip(dir.x_post.text) # << >>

InitPublish ==
  /\ IdleAnalyzer
  /\ IdleAssets
  /\ IdleInputs
  /\ IdleStartup
  /\ IdleBumpers
  /\ IdleEnding
  /\ IdleCompose
  /\ IdleBounce
  /\ IdleRender
  /\ IdleRetry
  /\ IdleText
  /\ IdleShorts
  /\ output_dir = NoDirectory
  /\ tweets = << >>

PublishFrame ==
  UNCHANGED << analyzerVars, assetVars, endingVars, inputVars, startupVars,
               bumperVars, composeVars, bounceVars, renderVars, retryVars,
               textVars, shortsVars >>

\* generate <theme> [-d]
GenerateTheme ==
  /\ ~output_dir.exists
  /\ \E content \in XPostContents, draft \in BOOLEAN :
       output_dir' = IF draft THEN NewDirectory(content)
                              ELSE Composed(NewDirectory(content))
  /\ UNCHANGED tweets
  /\ PublishFrame

\* generate -s script.json
GenerateScript ==
  /\ output_dir.exists
  /\ output_dir.script.present
  /\ output_dir' = Recomposed(output_dir)
  /\ UNCHANGED tweets
  /\ PublishFrame

\* upload <output_dir> [--public]
Upload ==
  /\ CanUpload(output_dir)
  /\ \E ok \in BOOLEAN, public \in BOOLEAN :
       output_dir' = IF ok THEN Uploaded(output_dir, public) ELSE output_dir
  /\ UNCHANGED tweets
  /\ PublishFrame

\* shorts <output_dir>
Shorts ==
  /\ CanUploadShorts(output_dir)
  /\ \E ok \in BOOLEAN :
       output_dir' = IF ok THEN ShortsUploaded(output_dir) ELSE output_dir
  /\ UNCHANGED tweets
  /\ PublishFrame

\* post <output_dir>
Post ==
  /\ CanPost(output_dir)
  /\ Len(tweets) < MaxTweets
  /\ \E ok \in BOOLEAN :
       tweets' = IF ok THEN Append(tweets, strip(output_dir.x_post.text)) ELSE tweets
  /\ UNCHANGED output_dir
  /\ PublishFrame

\* run <theme> and run -s script.json, with the answers given to its prompts
Run ==
  \E from_script \in BOOLEAN, content \in XPostContents,
     generate, upload, upload_ok, shorts, shorts_ok, post, post_ok \in BOOLEAN :
    LET start == IF from_script THEN output_dir ELSE NewDirectory(content)
        composed == from_script \/ generate
        d1 == IF composed THEN Composed(start) ELSE start
        youtube_url == composed /\ upload /\ upload_ok
        d2 == IF youtube_url THEN Uploaded(d1, FALSE) ELSE d1
        shorts_raised == youtube_url /\ shorts /\ ~shorts_ok
        d3 == IF youtube_url /\ shorts /\ shorts_ok THEN ShortsUploaded(d2) ELSE d2
        posts == youtube_url /\ ~shorts_raised /\ post /\ post_ok /\ CanPost(d3)
    IN  /\ IF from_script THEN output_dir.exists /\ output_dir.script.present
                          ELSE ~output_dir.exists
        /\ posts => Len(tweets) < MaxTweets
        /\ output_dir' = d3
        /\ tweets' = IF posts THEN Append(tweets, strip(d3.x_post.text)) ELSE tweets
        /\ PublishFrame

NextPublish ==
  \/ GenerateTheme
  \/ GenerateScript
  \/ Upload
  \/ Shorts
  \/ Post
  \/ Run

SpecPublish == InitPublish /\ [][NextPublish]_vars

(***************************************************************************)
(* The analyser's intermediate values on the current inputs, for the       *)
(* properties below.                                                       *)
(***************************************************************************)
MonoSamples == Downmix(DecodeSamples(readframes(wav), wav.sample_width), wav.n_channels)

\* the plain threshold test per video frame, before chatter suppression
LoudFrames ==
  RmsOpen(MonoSamples, Len(mouth.states), wav.sample_rate, fps, threshold)

(***************************************************************************)
(* C1: whenever analyze_mouth_states returns, the returned array has       *)
(* exactly ceil(n_frames / sample_rate * fps) entries, i.e. the least      *)
(* integer L with L * sample_rate >= n_frames * fps, for every channel     *)
(* count, frame rate, threshold and min_open_frames.                       *)
(***************************************************************************)
C1_LengthIsCeil ==
  mouth.kind = "array" =>
    LET L == Len(mouth.states)
    IN  /\ L * wav.sample_rate >= wav.n_frames * fps
        /\ (L - 1) * wav.sample_rate < wav.n_frames * fps

\* a stereo clip whose duration * fps is not an integer, so the ceiling rounds up
C1_Witness ==
  /\ mouth.kind = "array"
  /\ wav.n_channels = 2
  /\ (wav.n_frames * fps) % wav.sample_rate # 0
  /\ Len(mouth.states) * wav.sample_rate > wav.n_frames * fps
  /\ Len(mouth.states) >= 2

(***************************************************************************)
(* C2: with min_open_frames = m > 1, every rising edge of the returned     *)
(* array (frame i True, frame i-1 False or i the first frame) is followed  *)
(* by True at frames i+1 .. i+m-1, capped at the last frame, whatever the  *)
(* RMS of those frames.                                                    *)
(***************************************************************************)
C2_RisingEdgeHeld ==
  (mouth.kind = "array" /\ min_open_frames > 1) =>
    \A i \in 1..Len(mouth.states) :
      (mouth.states[i] /\ (i = 1 \/ ~mouth.states[i - 1])) =>
        \A j \in i..Min(i + min_open_frames - 1, Len(mouth.states)) :
          mouth.states[j]

\* one loud bin surrounded by silence, m = 3: three consecutive True frames from that bin
C2_Witness ==
  /\ mouth.kind = "array"
  /\ min_open_frames = 3
  /\ \E i \in 2..(Len(mouth.states) - 3) :
       /\ \A j \in 1..Len(mouth.states) : LoudFrames[j] <=> (j = i)
       /\ \A j \in 1..Len(mouth.states) : mouth.states[j] <=> (j \in i..(i + 2))

(***************************************************************************)
(* C6: after load_character_assets has returned, for whatever subset of    *)
(* the ten structured sprite files exists, resolving the mouth-closed and  *)
(* the mouth-open sprite of any requested emotion succeeds, with the       *)
(* emotion's own sprite when it was loaded and the normal sprite of the    *)
(* same mouth state otherwise.                                             *)
(***************************************************************************)
C6_ResolveNeverFails ==
  sprites.found.kind # "none" =>
    /\ sprites.found.kind = "sprites"
    /\ sprites.found.closed =
         (IF sprites.emotion \in DOMAIN frames.mouth_closed
            THEN frames.mouth_closed[sprites.emotion] ELSE frames.mouth_closed["normal"])
    /\ sprites.found.open =
         (IF sprites.emotion \in DOMAIN frames.mouth_open
            THEN frames.mouth_open[sprites.emotion] ELSE frames.mouth_open["normal"])

(***************************************************************************)
(* Helpers of the timeline properties.                                     *)
(***************************************************************************)
HasOpening == title # "" /\ opening_logo

CallVoiceMissing == "ENDING_CALL_VOICE_TSUNO_PATH" \notin DOMAIN ending_files

OpeningCount == IF HasOpening THEN 1 ELSE 0

EndingCount == IF CallVoiceMissing THEN 0 ELSE 1

CharacterOf(scene, c) == IF c = "tsuno" THEN scene.tsuno ELSE scene.megane

OtherCharacter(c) == IF c = "tsuno" THEN "megane" ELSE "tsuno"

\* duration of the audio generated for lines 1..n, read from the files
RECURSIVE SpeechTime(_)
SpeechTime(n) ==
  IF n = 0 THEN 0 ELSE AudioDuration(audio_files[audio_paths[n]]) + SpeechTime(n - 1)

Assembled == pc \in {"render", "done"}

(***************************************************************************)
(* C3: in every landscape scene exactly one character is active: the       *)
(* line's speaker is an animated clip driven by the line's mouth states at *)
(* brightness 1.0 and scale 1.1, the other character is a static           *)
(* mouth-closed clip at brightness 0.5 and scale 1.0.                      *)
(***************************************************************************)
C3_OneActiveSpeaker ==
  \A k \in 1..Len(clips) :
    clips[k].kind = "scene" =>
      LET line == dialogue[clips[k].line]
          active == CharacterOf(clips[k], line.speaker)
          passive == CharacterOf(clips[k], OtherCharacter(line.speaker))
      IN  /\ line.speaker \in CHARACTERS
          /\ active.kind = "animated"
          /\ active.brightness = 100
          /\ active.scale = 110
          /\ active.mouth_states =
               analyze_mouth_states(audio_files[audio_paths[clips[k].line]], VIDEO_FPS,
                                    LIPSYNC_THRESHOLD, LIPSYNC_MIN_OPEN_FRAMES).states
          /\ passive.kind = "static"
          /\ passive.brightness = 50
          /\ passive.scale = 100
          /\ passive.open = NoImage
          /\ passive.closed.mouth \in {"closed", "none"}

\* a scene spoken by tsuno followed by a scene spoken by megane
C3_Witness ==
  \E k \in 1..(Len(clips) - 1) :
    /\ clips[k].kind = "scene" /\ clips[k + 1].kind = "scene"
    /\ clips[k].tsuno.kind = "animated" /\ clips[k].megane.brightness = 50
    /\ clips[k + 1].megane.kind = "animated" /\ clips[k + 1].tsuno.brightness = 50

(***************************************************************************)
(* C4: the concatenated timeline is the opening (if present), then exactly *)
(* one scene per DialogueLine in dialogue order, each with the audio clip  *)
(* of the same index, then the ending (if present).                        *)
(***************************************************************************)
C4_TimelineOrder ==
  Assembled =>
    /\ Len(audio_paths) = Len(dialogue)
    /\ Len(final.clips) = OpeningCount + Len(dialogue) + EndingCount
    /\ HasOpening => final.clips[1].kind = "opening"
    /\ \A i \in 1..Len(dialogue) :
         /\ final.clips[OpeningCount + i].kind = "scene"
         /\ final.clips[OpeningCount + i].line = i
         /\ final.clips[OpeningCount + i].audio = audio_paths[i]
    /\ ~CallVoiceMissing => final.clips[Len(final.clips)].kind = "ending"

\* opening, two scenes with different clips, ending
C4_Witness ==
  /\ pc = "done"
  /\ HasOpening /\ ~CallVoiceMissing
  /\ Len(dialogue) = 2
  /\ synth[1] # synth[2]
  /\ Len(output.clips) = 4

(***************************************************************************)
(* C5: the total duration of the assembled timeline is the opening         *)
(* duration (if present) plus the sum of the per-line audio durations plus *)
(* the ending duration (if present), and every scene lasts as long as its  *)
(* own audio clip.                                                         *)
(***************************************************************************)
C5_DurationLaw ==
  Assembled =>
    /\ final.duration =
         (IF HasOpening THEN OPENING_DURATION ELSE 0)
         + SpeechTime(Len(dialogue))
         + (IF ending.kind = "ending" THEN ending.duration ELSE 0)
    /\ \A k \in 1..Len(final.clips) :
         final.clips[k].kind = "scene" =>
           final.clips[k].duration =
             AudioDuration(audio_files[audio_paths[final.clips[k].line]])
    /\ pc = "done" => output.duration = final.duration

\* opening, a 375 ms and a 250 ms scene and the ending, written to the file
C5_Witness ==
  /\ pc = "done"
  /\ HasOpening /\ ending.kind = "ending"
  /\ Len(dialogue) = 2 /\ synth[1] = "speech" /\ synth[2] = "silence"
  /\ output.duration = OPENING_DURATION + 375 + 250 + ending.duration

(***************************************************************************)
(* C7: the mouth states of every animated clip have at least               *)
(* ceil(duration * fps) >= 1 entries, and at every sample time t >= 0,     *)
(* also at or after the clip end and in any sampling order, the index      *)
(* min(int(t * fps), len - 1) lies in [0, len - 1].                        *)
(***************************************************************************)
C7_IndexInRange ==
  /\ \A k \in 1..Len(clips) :
       clips[k].kind = "scene" =>
         \A c \in CHARACTERS :
           CharacterOf(clips[k], c).kind = "animated" =>
             /\ Len(CharacterOf(clips[k], c).mouth_states) >= 1
             /\ Len(CharacterOf(clips[k], c).mouth_states) * 1000
                  >= clips[k].duration * VIDEO_FPS
  /\ probe.kind = "sampled" =>
       /\ probe.frame_idx >= 0
       /\ probe.frame_idx <= probe.frames - 1
       /\ probe.mouth \in {"open", "closed"}

\* a frame asked for after the end of the clip gets the last entry
C7_Witness ==
  /\ probe.kind = "sampled"
  /\ probe.t = 1000
  /\ probe.frames = 9
  /\ probe.frame_idx = 8
  /\ probe.mouth = "open"

(***************************************************************************)
(* C8: when the character-A call-to-action voice is absent,                *)
(* _create_ending_clip yields no clip, no ending is appended, the timeline *)
(* is the opening (if present) and the dialogue scenes, and the video is   *)
(* written.                                                                *)
(***************************************************************************)
C8_EndingSkipped ==
  CallVoiceMissing =>
    /\ ending.kind \in {"idle", "None"}
    /\ \A k \in 1..Len(clips) : clips[k].kind \in {"opening", "scene"}
    /\ pc = "done" =>
         /\ output.exists
         /\ Len(output.clips) = OpeningCount + Len(dialogue)
         /\ \A k \in 1..Len(output.clips) : output.clips[k].kind \in {"opening", "scene"}

\* a video of one opening and two scenes written without ending
C8_Witness ==
  /\ CallVoiceMissing
  /\ pc = "done"
  /\ ending = None
  /\ output.exists
  /\ HasOpening
  /\ Len(output.clips) = 3

(***************************************************************************)
(* C9 as stated: a missing ending call voice aborts the render with an     *)
(* error and no output video is produced.                                  *)
(***************************************************************************)
C9_MissingVoiceFatal ==
  CallVoiceMissing =>
    /\ ~output.exists
    /\ pc \notin {"concatenate", "render", "done"}

(***************************************************************************)
(* C9 amended: a missing ending call voice is not fatal.  The ending step  *)
(* raises nothing, so once it has run the render is past every failure     *)
(* point, and the run ends with the output video written.                  *)
(***************************************************************************)
C9_MissingVoiceNotFatal ==
  CallVoiceMissing =>
    /\ ending.kind # "idle" => (error = "none" /\ pc \in {"concatenate", "render", "done"})
    /\ error # "none" => ending.kind = "idle"
    /\ pc = "done" => output.exists

\* the ending step has run without the call voice and the file is written
C9_Witness ==
  /\ CallVoiceMissing
  /\ ending.kind = "None"
  /\ error = "none"
  /\ pc = "done"
  /\ output.exists
  /\ ~HasOpening

(***************************************************************************)
(* C10 as stated: the ending lasts call voice + gap + character-A closing  *)
(* line + gap + character-B closing line + fade-out window + trailing      *)
(* hold.                                                                   *)
(***************************************************************************)
VoiceTime(path) == IF path \in DOMAIN ending_files THEN ending_files[path] ELSE 0

C10_SumOfParts ==
  ending.kind = "ending" =>
    ending.duration =
      VoiceTime("ENDING_CALL_VOICE_TSUNO_PATH") + ending_cfg.ENDING_VOICE_GAP
      + VoiceTime("ENDING_VOICE_TSUNO_PATH") + ending_cfg.ENDING_VOICE_GAP
      + VoiceTime("ENDING_VOICE_MEGANE_PATH")
      + ending_cfg.ENDING_FADE_OUT + 500

(***************************************************************************)
(* C10 amended: the ending lasts fade-in window + call voice + gap +       *)
(* character-A closing line (0 when absent) + gap + 0.5 s into             *)
(* character-B's closing line + fade-out window + 0.5 s trailing hold; the *)
(* duration of character-B's closing line does not enter.                  *)
(***************************************************************************)
C10_DurationFromStartOfLastLine ==
  ending.kind = "ending" =>
    ending.duration =
      ending_cfg.ENDING_FADE_IN
      + VoiceTime("ENDING_CALL_VOICE_TSUNO_PATH") + ending_cfg.ENDING_VOICE_GAP
      + VoiceTime("ENDING_VOICE_TSUNO_PATH") + ending_cfg.ENDING_VOICE_GAP
      + 500 + ending_cfg.ENDING_FADE_OUT + 500

\* all four voices present, the two closing lines of different length
C10_Witness ==
  /\ ending.kind = "ending"
  /\ DOMAIN ending_files = EndingVoicePaths
  /\ ending_files["ENDING_VOICE_TSUNO_PATH"] = 700
  /\ ending_files["ENDING_VOICE_MEGANE_PATH"] = 1500
  /\ ending_cfg.ENDING_VOICE_GAP = 300
  /\ ending.duration = 500 + ending_files["ENDING_CALL_VOICE_TSUNO_PATH"] + 300 + 700
                       + 300 + 500 + ending_cfg.ENDING_FADE_OUT + ending_cfg.ENDING_FADE_IN

(***************************************************************************)
(* C11: for every clip without a non-zero sample, the clip of zero samples *)
(* included, analyze_mouth_states raises nothing and returns an all-False  *)
(* array of ceil(duration * fps) entries (none for the empty clip).        *)
(* Stated for the sample widths the decoder knows (1, 2 and 4 bytes).      *)
(***************************************************************************)
SilentClip == \A f \in 1..wav.n_frames : \A c \in 1..wav.n_channels : wav.pcm[f][c] = 0

C11_SilentAllFalse ==
  (SilentClip /\ wav.sample_width \in {1, 2, 4} /\ mouth.kind # "idle") =>
    /\ mouth.kind = "array"
    /\ Len(mouth.states) = CeilDiv(wav.n_frames * fps, wav.sample_rate)
    /\ \A i \in 1..Len(mouth.states) : ~mouth.states[i]

(***************************************************************************)
(* C12: a video frame whose bin RMS equals the threshold exactly is        *)
(* closed: the test is strict, so a frame is open by its own loudness iff  *)
(* its RMS is greater than the threshold, and any other open frame is one  *)
(* held open after an earlier open frame.                                  *)
(***************************************************************************)
\* squared RMS of bin i (from 1) of the normalised samples, as a fraction
BinMeanSquare(i) ==
  LET start == BinStart(i - 1, wav.sample_rate, fps)
      end == BinEnd(i - 1, wav.sample_rate, fps, Len(MonoSamples))
      peak == MaxAbs(MonoSamples)
  IN  IF start < end
        THEN [num |-> SumSquares(MonoSamples, start, end),
              den |-> (IF peak > 0 THEN peak * peak ELSE 1) * (end - start)]
        ELSE [num |-> 0, den |-> 1]

RmsAboveThreshold(i) ==
  BinMeanSquare(i).num * threshold.den * threshold.den
    > threshold.num * threshold.num * BinMeanSquare(i).den

RmsEqualsThreshold(i) ==
  BinMeanSquare(i).num * threshold.den * threshold.den
    = threshold.num * threshold.num * BinMeanSquare(i).den

C12_StrictThreshold ==
  mouth.kind = "array" =>
    \A i \in 1..Len(mouth.states) :
      /\ RmsAboveThreshold(i) => mouth.states[i]
      /\ (mouth.states[i] /\ ~RmsAboveThreshold(i)) =>
           /\ min_open_frames > 1
           /\ \E j \in Max(1, i - min_open_frames + 1)..(i - 1) : mouth.states[j]
      /\ (RmsEqualsThreshold(i) /\ min_open_frames = 1) => ~mouth.states[i]

\* a frame at exactly the threshold that stays closed next to a frame below it
C12_Witness ==
  /\ mouth.kind = "array"
  /\ min_open_frames = 1
  /\ Len(mouth.states) >= 2
  /\ \E i \in 1..Len(mouth.states) : RmsEqualsThreshold(i) /\ ~mouth.states[i]
  /\ \E i \in 1..Len(mouth.states) :
       ~RmsEqualsThreshold(i) /\ ~RmsAboveThreshold(i) /\ BinMeanSquare(i).num > 0

(***************************************************************************)
(* C13: whenever load_character_assets takes the legacy fallback, because  *)
(* the structured directory is absent or because normal_closed.png is      *)
(* missing after the structured load, the returned frame set holds the     *)
(* single legacy image for each of the five emotions in both mouth states, *)
(* so mouth_open[e] and mouth_closed[e] are the same image for every e.    *)
(***************************************************************************)
FallbackTaken == ~disk.dir \/ << "normal", "closed" >> \notin disk.files

C13_LegacyUniform ==
  (frames.kind = "frames" /\ FallbackTaken) =>
    /\ DOMAIN frames.mouth_closed = VALID_EMOTIONS
    /\ DOMAIN frames.mouth_open = VALID_EMOTIONS
    /\ \A e \in VALID_EMOTIONS :
         /\ frames.mouth_closed[e] = LegacyImage
         /\ frames.mouth_open[e] = LegacyImage

(***************************************************************************)
(* C14: a render whose dialogue holds a line with a speaker outside the    *)
(* two configured ones fails with a hard error: the run stops with the     *)
(* ValueError raised for that line, no scene is produced for it, the error *)
(* reaches the caller and nothing is written.                              *)
(***************************************************************************)
C14_UnknownSpeakerFails ==
  (\E i \in 1..Len(dialogue) : dialogue[i].speaker \notin CHARACTERS) =>
    /\ pc \in {"generate_audio", "failed"}
    /\ pc = "failed" => error = "ValueError"
    /\ \A k \in 1..Len(clips) :
         clips[k].kind = "scene" => dialogue[clips[k].line].speaker \in CHARACTERS
    /\ final = NoVideo
    /\ ~output.exists

\* the second line has the unknown speaker: the first audio file exists, then the error
C14_Witness ==
  /\ Len(dialogue) = 2
  /\ dialogue[1].speaker = "tsuno"
  /\ dialogue[2].speaker = "other"
  /\ pc = "failed"
  /\ error = "ValueError"
  /\ Len(audio_files) = 1
  /\ clips = << >>

(***************************************************************************)
(* C15: a render that fails with a hard error at any point of assembly,    *)
(* such as an unreadable audio file for some dialogue line, writes no      *)
(* output video: the file exists only after a run without error has        *)
(* reached the write step.                                                 *)
(***************************************************************************)
C15_FailedRenderNoOutput ==
  /\ pc = "failed" => (error # "none" /\ final = NoVideo /\ ~output.exists)
  /\ (\E i \in 1..Len(dialogue) : synth[i] = "corrupt") => (pc # "done" /\ ~output.exists)
  /\ output.exists => (pc = "done" /\ error = "none")

\* the audio of the second line is unreadable: one scene was built, then the error
C15_Witness ==
  /\ Len(dialogue) = 2
  /\ synth[2] = "corrupt"
  /\ pc = "failed"
  /\ error = "OSError"
  /\ \E k \in 1..Len(clips) : clips[k].kind = "scene" /\ clips[k].line = 1
  /\ ~output.exists

(***************************************************************************)
(* C16: a missing font is detected by the single environment check, which  *)
(* runs before every script, background, audio, thumbnail and video        *)
(* generation step; with the font missing the run exits with a failure     *)
(* status and no generation step has run.                                  *)
(***************************************************************************)
C16_FontCheckedFirst ==
  /\ \A k \in 1..Len(steps) :
       steps[k] \in GenerationSteps =>
         (k > 1 /\ steps[1] = "validate_environment" /\ font_exists)
  /\ Cardinality({k \in 1..Len(steps) : steps[k] = "validate_environment"}) <= 1
  /\ ~font_exists =>
       /\ \A k \in 1..Len(steps) : steps[k] \notin GenerationSteps
       /\ main_pc \notin {"dispatch", "generate"}
       /\ main_pc = "exited" => exit_code \in {1, 2}

\* cmd_run with a theme and no font: the check ran, nothing else, exit status 1
C16_Witness ==
  /\ ~font_exists
  /\ cli_args.entry = "cmd_run"
  /\ cli_args.theme /\ ~cli_args.script
  /\ main_pc = "exited"
  /\ exit_code = 1
  /\ steps = << "validate_environment" >>

(***************************************************************************)
(* C17: over the 7.0 s opening the logo opacity is 0 before 1.0 s, rises   *)
(* linearly from 0 to 1 over [1.0, 1.5], is 1 on [1.5, 6.5] and falls      *)
(* linearly to 0 over [6.5, 7.0]; the title opacity is 0 before 3.0 s,     *)
(* rises linearly over [3.0, 3.5], is 1 on [3.5, 6.5] and falls linearly   *)
(* to 0 over [6.5, 7.0].  Both stay within [0, 1], and the closed windows  *)
(* agree where they meet, so there is no jump at a window boundary.        *)
(***************************************************************************)
C17_OpeningOpacity ==
  opening_probe.kind = "frame" =>
    LET t == opening_probe.t
        logo == opening_probe.logo_opacity
        ttl == opening_probe.title_opacity
    IN  /\ OPENING_DURATION = 7000
        /\ logo >= 0 /\ logo <= FADE_WINDOW
        /\ ttl >= 0 /\ ttl <= FADE_WINDOW
        /\ t < 1000 => logo = 0
        /\ (t >= 1000 /\ t <= 1500) => logo * 500 = (t - 1000) * FADE_WINDOW
        /\ (t >= 1500 /\ t <= 6500) => logo = FADE_WINDOW
        /\ (t >= 6500 /\ t <= 7000) => logo * 500 = (7000 - t) * FADE_WINDOW
        /\ t < 3000 => ttl = 0
        /\ (t >= 3000 /\ t <= 3500) => ttl * 500 = (t - 3000) * FADE_WINDOW
        /\ (t >= 3500 /\ t <= 6500) => ttl = FADE_WINDOW
        /\ (t >= 6500 /\ t <= 7000) => ttl * 500 = (7000 - t) * FADE_WINDOW

\* a frame in the logo's fade-in, before the title shows: logo at 40%, title at 0
C17_Witness ==
  /\ opening_probe.kind = "frame"
  /\ opening_probe.t = 1200
  /\ opening_probe.logo_opacity * 5 = 2 * FADE_WINDOW
  /\ opening_probe.title_opacity = 0

(***************************************************************************)
(* C18: at every time of the opening at which the title opacity is above   *)
(* 0 the logo is drawn at full scale: the zoom from 50% to 100% is         *)
(* complete strictly before the title fade-in starts at 3.0 s, and the     *)
(* logo scale never decreases from one millisecond to the next during the  *)
(* zoom.                                                                   *)
(***************************************************************************)
C18_TitleAfterZoom ==
  opening_probe.kind = "frame" =>
    LET t == opening_probe.t
    IN  /\ opening_probe.title_opacity > 0 =>
             (opening_probe.logo_scale = FullScale /\ t > 3000)
        /\ t = 1000 => opening_probe.logo_scale * 2 = FullScale
        /\ (t >= 1000 /\ t < OPENING_DURATION) =>
             /\ opening_probe.logo_scale * 2 >= FullScale
             /\ opening_probe.logo_scale <= FullScale
             /\ opening_probe.logo_scale <= logo_scale(t + 1)
        /\ (t >= 2990 /\ t <= 3000) => opening_probe.logo_scale = FullScale

\* the title half faded in over the full-size logo
C18_Witness ==
  /\ opening_probe.kind = "frame"
  /\ opening_probe.t = 3250
  /\ opening_probe.title_opacity * 2 = FADE_WINDOW
  /\ opening_probe.logo_scale = FullScale
  /\ opening_probe.logo_opacity = FADE_WINDOW

(***************************************************************************)
(* Fractions of the ending's layers, compared by cross-multiplication.     *)
(***************************************************************************)
FracEq(a, n, d) == a.num * d = n * a.den

FracLeq(a, b) == a.num * b.den <= b.num * a.den

\* start of the fade-out from the files and the configuration:
\* start of character B's line + 0.5 s
FadeOutBegin ==
  ending_cfg.ENDING_FADE_IN + VoiceTime("ENDING_CALL_VOICE_TSUNO_PATH")
  + ending_cfg.ENDING_VOICE_GAP + VoiceTime("ENDING_VOICE_TSUNO_PATH")
  + ending_cfg.ENDING_VOICE_GAP + 500

(***************************************************************************)
(* C19: in the ending the opacity of logo and call-to-action text rises    *)
(* linearly from 0 to 1 during the fade-in window, then stays 1 to the end *)
(* of the clip and never decreases; the character opacity rises over the   *)
(* same window, holds at 1, falls linearly to 0 over ENDING_FADE_OUT       *)
(* starting 0.5 s after the start of character B's line, and stays 0       *)
(* through the trailing hold.                                              *)
(***************************************************************************)
C19_EndingOpacity ==
  ending_probe.kind = "frame" =>
    LET t == ending_probe.t
        fin == ending_cfg.ENDING_FADE_IN
        fout == ending_cfg.ENDING_FADE_OUT
        static == ending_probe.static_opacity
        char == ending_probe.char_opacity
    IN  /\ t <= fin => (FracEq(static, t, fin) /\ FracEq(char, t, fin))
        /\ t >= fin => FracEq(static, 1, 1)
        /\ FracLeq(static, static_opacity(t + 100, ending_cfg))
        /\ (t >= fin /\ t <= FadeOutBegin) => FracEq(char, 1, 1)
        /\ (t >= FadeOutBegin /\ t <= FadeOutBegin + fout) =>
             FracEq(char, fout - (t - FadeOutBegin), fout)
        /\ t >= FadeOutBegin + fout => FracEq(char, 0, 1)
        /\ FadeOutBegin + fout + 500 = ending.duration

\* a frame in the middle of the fade-out: characters at 50%, logo and text at 100%
C19_Witness ==
  /\ ending_probe.kind = "frame"
  /\ ending_probe.t = FadeOutBegin + 500
  /\ ending_cfg.ENDING_FADE_OUT = 1000
  /\ FracEq(ending_probe.char_opacity, 1, 2)
  /\ FracEq(ending_probe.static_opacity, 1, 1)

(***************************************************************************)
(* C20: the mixed audio of the ending fades to silence over the interval   *)
(* of the character fade-out, [fade_out_start, fade_out_start +            *)
(* ENDING_FADE_OUT]: full volume up to its start, the same linear factor   *)
(* as the characters inside it, silence from its end.                      *)
(***************************************************************************)
C20_AudioFadesWithCharacters ==
  ending_probe.kind = "frame" =>
    LET t == ending_probe.t
        fout == ending_cfg.ENDING_FADE_OUT
        gain == ending_probe.audio_gain
    IN  /\ t <= ending.fade_out_start => FracEq(gain, 1, 1)
        /\ (t >= ending.fade_out_start /\ t <= ending.fade_out_start + fout) =>
             FracEq(gain, fout - (t - ending.fade_out_start), fout)
        /\ t >= ending.fade_out_start + fout => FracEq(gain, 0, 1)

(***************************************************************************)
(* C22: for sample widths of 1, 2, 3 and 4 bytes and one or more channels, *)
(* analyze_mouth_states on a clip that holds samples returns an array, and *)
(* the mono stream it analysed has one sample per audio frame (n_frames),  *)
(* each sample having been decoded with the width it was stored with.      *)
(***************************************************************************)
C22_WidthSpecificDecode ==
  (mouth.kind # "idle" /\ wav.n_frames > 0) =>
    /\ mouth.kind = "array"
    /\ Len(MonoSamples) = wav.n_frames

(***************************************************************************)
(* C23: chatter suppression only ever forces frames open.  Every frame     *)
(* that passes the plain threshold test is True in the output; every True  *)
(* output frame passes the test itself or is one of the min_open_frames-1  *)
(* frames after a frame that passes it; and with min_open_frames <= 1 the  *)
(* output is the plain threshold test.                                     *)
(***************************************************************************)
C23_OnlyForcesOpen ==
  mouth.kind = "array" =>
    LET loud == LoudFrames
    IN  /\ \A i \in 1..Len(mouth.states) :
             /\ loud[i] => mouth.states[i]
             /\ mouth.states[i] =>
                  \E j \in Max(1, i - Max(min_open_frames, 1) + 1)..i : loud[j]
        /\ min_open_frames <= 1 => mouth.states = loud

\* a quiet frame held open after a loud one, with a later quiet frame left closed
C23_Witness ==
  /\ mouth.kind = "array"
  /\ min_open_frames = 2
  /\ \E i \in 2..(Len(mouth.states) - 1) :
       /\ LoudFrames[i - 1] /\ ~LoudFrames[i] /\ mouth.states[i]
       /\ ~LoudFrames[i + 1] /\ ~mouth.states[i + 1]

(***************************************************************************)
(* C24: the RMS bins partition the sample stream.  As the claim words it,  *)
(* bin i runs from round(i * samples_per_frame) to                         *)
(* round((i+1) * samples_per_frame), capped at the clip length.            *)
(***************************************************************************)
\* a / b rounded to the nearest integer, ties to the even one (Python's round)
RoundDiv(a, b) ==
  LET q == a \div b
      r == a % b
  IN  IF 2 * r < b THEN q
      ELSE IF 2 * r > b THEN q + 1
      ELSE IF q % 2 = 0 THEN q ELSE q + 1

\* the clip was decoded one sample per audio frame and the analyser returned
Binned == mouth.kind = "array" /\ Len(MonoSamples) = wav.n_frames

C24_RoundedBins ==
  Binned =>
    \A i \in 0..(Len(mouth.states) - 1) :
      /\ BinStart(i, wav.sample_rate, fps) = RoundDiv(i * wav.sample_rate, fps)
      /\ BinEnd(i, wav.sample_rate, fps, wav.n_frames)
           = Min(RoundDiv((i + 1) * wav.sample_rate, fps), wav.n_frames)

(***************************************************************************)
(* C24, amended: the bin boundaries are truncated, not rounded.  Bin i     *)
(* runs from floor(i * samples_per_frame) to floor((i+1) *                 *)
(* samples_per_frame) capped at the length of the decoded stream; the      *)
(* first bin starts at sample 0, each bin ends where the next begins, the  *)
(* last ends at or after sample n_frames, no sample lies in two bins and   *)
(* each of the first n_frames samples lies in exactly one.                 *)
(***************************************************************************)
\* the bins (from 0) whose half-open range holds sample k (from 0)
BinsOf(k) ==
  { i \in 0..(Len(mouth.states) - 1) :
      /\ BinStart(i, wav.sample_rate, fps) <= k
      /\ k < BinEnd(i, wav.sample_rate, fps, Len(MonoSamples)) }

C24_TruncatedBins ==
  mouth.kind = "array" =>
    LET L == Len(mouth.states)
        N == Len(MonoSamples)
        bins(k) == { i \in 0..(L - 1) :
                       /\ BinStart(i, wav.sample_rate, fps) <= k
                       /\ k < BinEnd(i, wav.sample_rate, fps, N) }
    IN  /\ \A i \in 0..(L - 1) :
             LET start == BinStart(i, wav.sample_rate, fps)
                 end == BinEnd(i, wav.sample_rate, fps, N)
             IN  /\ start * fps <= i * wav.sample_rate
                 /\ i * wav.sample_rate < (start + 1) * fps
                 /\ start <= end
                 /\ i = 0 => start = 0
                 /\ i < L - 1 => end = BinStart(i + 1, wav.sample_rate, fps)
                 /\ i = L - 1 => end >= wav.n_frames
        /\ \A k \in 0..(N - 1) : Cardinality(bins(k)) <= 1
        /\ \A k \in 0..(wav.n_frames - 1) : Cardinality(bins(k)) = 1

\* bins of unequal size: samples_per_frame = 3/2 over three samples gives bins of 1 and 2
C24_Witness ==
  /\ Binned
  /\ wav.sample_rate = 3 /\ fps = 2 /\ wav.n_frames = 3
  /\ Len(mouth.states) = 2
  /\ BinsOf(0) = {0} /\ BinsOf(1) = {1} /\ BinsOf(2) = {1}

(***************************************************************************)
(* C21: in the portrait ending, at every time t >= 0 each character sprite *)
(* that fits the frame lies entirely inside it: 0 <= x <= width - sprite   *)
(* width and 0 <= y <= height - sprite height, also while the argument of  *)
(* _bounce is negative.                                                    *)
(***************************************************************************)
OnScreen(pos, sprite) ==
  /\ (portrait.size[1] >= sprite[1]) =>
       (0 <= pos[1] /\ pos[1] <= portrait.size[1] - sprite[1])
  /\ (portrait.size[2] >= sprite[2]) =>
       (0 <= pos[2] /\ pos[2] <= portrait.size[2] - sprite[2])

C21_SpritesOnScreen ==
  position_probe.kind = "frame" =>
    /\ OnScreen(position_probe.tsuno, portrait.tsuno)
    /\ OnScreen(position_probe.megane, portrait.megane)

\* after its first bounce off the left edge (negative argument) megane is moving right again
C21_Witness ==
  /\ position_probe.kind = "frame"
  /\ portrait.megane[1] = 150
  /\ 880000 - 380 * position_probe.t < 0
  /\ position_probe.megane[1] > 0
  /\ position_probe.megane[1] < 880
  /\ position_probe.tsuno[1] > 0

(***************************************************************************)
(* C25: in the ending the voice segments are strictly sequenced.  The      *)
(* closing line of character A (tsuno) starts no earlier than the end of   *)
(* every call-to-action voice that is present plus the gap, and the        *)
(* closing line of character B (megane) starts no earlier than the end of  *)
(* character A's closing line plus the gap.                                *)
(***************************************************************************)
CallVoices == {"ENDING_CALL_VOICE_TSUNO_PATH", "ENDING_CALL_VOICE_MEGANE_PATH"}

C25_VoicesSequenced ==
  ending.kind = "ending" =>
    /\ \A k \in 1..Len(ending.audio_clips) :
         ("ENDING_VOICE_TSUNO_PATH" \in DOMAIN ending_files
            /\ ending.audio_clips[k].path \in CallVoices) =>
           ending.tsuno_start >= ending.audio_clips[k].start
                                   + ending.audio_clips[k].duration
                                   + ending_cfg.ENDING_VOICE_GAP
    /\ ending.megane_start >= ending.tsuno_start + ending.tsuno_dur
                                + ending_cfg.ENDING_VOICE_GAP

(***************************************************************************)
(* C26: assembling scenes never modifies the CharacterFrames loaded at the *)
(* start of the render.  Every loaded array keeps the content it was       *)
(* loaded with, so in every scene the speaking character is drawn at full  *)
(* brightness and the other at half brightness, whatever was drawn in the  *)
(* scenes before, also when all emotions share the one legacy array.       *)
(***************************************************************************)
C26_FramesNeverModified ==
  /\ \A a \in DOMAIN pixels : pixels[a] = AsLoaded
  /\ \A k \in 1..Len(drawn) :
       \A c \in CHARACTERS :
         LET full == AsLoaded.rgb
             level == IF drawn[k].speaker = c THEN full ELSE full \div 2
         IN  drawn[k][c].error = "none" =>
               /\ drawn[k][c].closed = [rgb |-> level, alpha |-> AsLoaded.alpha]
               /\ drawn[k][c].open = [rgb |-> level, alpha |-> AsLoaded.alpha]

\* legacy mode: tsuno is dimmed in the first scene and speaks in the second
C26_Witness ==
  /\ sprite_dirs["tsuno"] = LegacyOnly
  /\ Len(drawn) >= 2
  /\ drawn[1].speaker = "megane" /\ drawn[1].tsuno.closed.rgb = AsLoaded.rgb \div 2
  /\ drawn[2].speaker = "tsuno" /\ drawn[2].tsuno.closed.rgb = AsLoaded.rgb
  /\ drawn[1].emotion # drawn[2].emotion

(***************************************************************************)
(* C27: every retried call to the generation service (script generation,   *)
(* background generation) waits between any two consecutive attempts, the  *)
(* waits grow from one retry to the next, the number of attempts stays     *)
(* within the fixed cap, and after the last allowed attempt has failed the *)
(* call has stopped: the script call has raised, the background call has   *)
(* returned False.                                                         *)
(***************************************************************************)
Requests == {k \in 1..Len(history) : history[k].event = "request"}

Sleeps == {k \in 1..Len(history) : history[k].event = "sleep"}

AttemptCap ==
  IF caller = "script" THEN (max_retries + 1) * (max_rate_retries + 1)
  ELSE BG_GENERATION_MAX_RETRIES

C27_BackoffBetweenAttempts ==
  caller # "none" =>
    /\ \A k \in Requests : (k + 1) \notin Requests
    /\ \A j \in Sleeps, k \in Sleeps :
         j < k => history[j].seconds < history[k].seconds
    /\ Cardinality(Requests) <= AttemptCap
    /\ (Cardinality(Requests) = AttemptCap /\ history[Len(history)].event = "request") =>
         /\ retry.pc = "done"
         /\ retry.outcome \in {"script", "True", "ClientError", "RuntimeError", "False"}

(***************************************************************************)
(* C28: with max_width > 0 the text is split at its line breaks first and  *)
(* each segment is wrapped greedily.  Every output line is the longest     *)
(* prefix of what remains of its segment whose width does not exceed the   *)
(* limit, or one character when even that is too wide; an empty segment    *)
(* gives one empty line.  The lines of a segment concatenate to the        *)
(* segment: no character is lost, duplicated or reordered.                 *)
(***************************************************************************)
WrapLimit == text_in.max_width - text_in.stroke_width * 2

\* the length of the longest prefix of rest that fits, 1 when none does
LongestFit(rest) ==
  LET fits == {n \in 1..Len(rest) : TextWidth(SubSeq(rest, 1, n)) <= WrapLimit}
  IN  IF fits = {} THEN 1 ELSE CHOOSE n \in fits : \A k \in fits : k <= n

RECURSIVE LongestPrefixes(_)
LongestPrefixes(rest) ==
  IF rest = << >> THEN << >>
  ELSE << SubSeq(rest, 1, LongestFit(rest)) >>
         \o LongestPrefixes(SubSeq(rest, LongestFit(rest) + 1, Len(rest)))

\* the start of each segment: position 1 and every position after a line break
SegmentStarts == {1} \cup {k + 1 : k \in {j \in 1..Len(text_in.text) : text_in.text[j] = NewLine}}

\* the segment that starts at position p: up to the next line break or the end
SegmentAt(p) ==
  LET stops == {j \in p..Len(text_in.text) : text_in.text[j] = NewLine}
      end == IF stops = {} THEN Len(text_in.text)
             ELSE (CHOOSE j \in stops : \A k \in stops : j <= k) - 1
  IN  SubSeq(text_in.text, p, end)

RECURSIVE ExpectedFrom(_)
ExpectedFrom(starts) ==
  IF starts = {} THEN << >>
  ELSE LET p == CHOOSE q \in starts : \A r \in starts : q <= r
           segment == SegmentAt(p)
       IN  (IF segment = << >> THEN << << >> >> ELSE LongestPrefixes(segment))
             \o ExpectedFrom(starts \ {p})

C28_GreedyWrap ==
  wrapped.kind = "lines" =>
    /\ wrapped.lines = ExpectedFrom(SegmentStarts)
    /\ Flatten(wrapped.lines) = SelectSeq(text_in.text, LAMBDA c : c # NewLine)

\* two segments, the first wrapped into two lines, one line wider than the limit
C28_Witness ==
  /\ wrapped.kind = "lines"
  /\ text_in.text = << "a", "W", NewLine, "W" >>
  /\ WrapLimit = 1
  /\ wrapped.lines = << << "a" >>, << "W" >>, << "W" >> >>

(***************************************************************************)
(* C29: compose_portrait drops dialogue lines only when the estimated      *)
(* total (sum of the audio durations + OPENING_DURATION + 10 s) exceeds    *)
(* SHORTS_MAX_DURATION, and then drops exactly the lines whose shorts_skip *)
(* flag is set: the lines kept are in their original order, each paired    *)
(* with the audio path of its own line.  Within the limit every line and   *)
(* every path is kept.                                                     *)
(***************************************************************************)
OverShortsLimit ==
  SumSeq([k \in 1..Len(shorts_in.audio_paths) |-> shorts_in.audio_paths[k].duration])
    + 7000 + 10000 > 180000

HasPlaceholder(text) == \E i \in 1..Len(text) : text[i] = Placeholder

C30_NoPlaceholderPublished ==
  \A i \in 1..Len(tweets) : ~HasPlaceholder(tweets[i])

====
